---- MODULE Spec2Model ----
(***************************************************************************)
(* Gradle build cache gateway: the Access Control Gate (BasicAuth,         *)
(* RequireRole), the cache endpoint handlers (Get, Head, Put) and the      *)
(* Redis storage backend they are wired to in cmd/server/main.go.          *)
(*                                                                         *)
(* Header values and bodies are sequences of byte values, so that the      *)
(* conversions the handlers apply to them are computed, not assumed.       *)
(***************************************************************************)
EXTENDS Integers, Sequences, FiniteSets, TLC

(***************************************************************************)
(* Bounds of the model.                                                    *)
(***************************************************************************)
\* the handler's maxEntrySize (cfg.MaxEntrySizeBytes()), scaled down
MaxEntrySize == 49

\* keys are sequences of characters
Keys == {<< "k", "1" >>, << "k", "2" >>}

\* body lengths the clients send: empty, tiny, at the ceiling and one above
BodyLens == {0, 1, MaxEntrySize, MaxEntrySize + 1}

\* a body of n bytes, all equal to b
Fill(n, b) == [i \in 1..n |-> b]

\* the byte values request bodies are filled with
FillBytes == {1, 2}

Bodies == {Fill(n, b) : n \in BodyLens, b \in FillBytes}

(***************************************************************************)
(* Configuration (config.AuthConfig.Users) and request credentials.        *)
(***************************************************************************)
Users ==
    << [Username |-> "reader", Password |-> "rpw", Role |-> "reader"],
       [Username |-> "writer", Password |-> "wpw", Role |-> "writer"] >>

NoAuthHeader == [kind |-> "none", username |-> "", password |-> ""]
MalformedAuthHeader == [kind |-> "malformed", username |-> "", password |-> ""]
BasicHeader(u, p) == [kind |-> "basic", username |-> u, password |-> p]

\* Authorization headers the clients send
AuthHeaders ==
    {NoAuthHeader, MalformedAuthHeader,
     BasicHeader("reader", "rpw"), BasicHeader("reader", "wpw"),
     BasicHeader("writer", "wpw"), BasicHeader("ghost", "rpw")}

(***************************************************************************)
(* Pure conversions.                                                       *)
(***************************************************************************)
RECURSIVE FormatInt(_)
\* strconv.FormatInt(n, 10) for n >= 0, as ASCII bytes
FormatInt(n) ==
    IF n < 10 THEN << 48 + n >>
    ELSE Append(FormatInt(n \div 10), 48 + (n % 10))

\* string(rune(size)): the UTF-8 encoding of the code point size
\* (sizes here stay below 2^31, where the int64 -> rune conversion is exact)
StringOfRune(r) ==
    IF r < 0 \/ r > 1114111 \/ (r >= 55296 /\ r <= 57343)
      THEN << 239, 191, 189 >>
    ELSE IF r < 128 THEN << r >>
    ELSE IF r < 2048 THEN << 192 + (r \div 64), 128 + (r % 64) >>
    ELSE IF r < 65536
      THEN << 224 + (r \div 4096), 128 + ((r \div 64) % 64), 128 + (r % 64) >>
    ELSE << 240 + (r \div 262144), 128 + ((r \div 4096) % 64),
            128 + ((r \div 64) % 64), 128 + (r % 64) >>

IsDigits(s) == Len(s) > 0 /\ \A i \in 1..Len(s) : s[i] >= 48 /\ s[i] <= 57

RECURSIVE DigitsValue(_)
DigitsValue(s) ==
    IF Len(s) = 0 THEN 0
    ELSE 10 * DigitsValue(SubSeq(s, 1, Len(s) - 1)) + (s[Len(s)] - 48)

\* strconv.ParseInt(cl, 10, 64) followed by the v >= 0 test of
\* net/http's response.WriteHeader: the length, or -1 when the header is
\* rejected
ParseContentLength(cl) ==
    IF IsDigits(cl) THEN DigitsValue(cl)
    ELSE IF Len(cl) > 1 /\ cl[1] = 43 /\ IsDigits(Tail(cl)) THEN DigitsValue(Tail(cl))
    ELSE -1

(***************************************************************************)
(* State.                                                                  *)
(***************************************************************************)
VARIABLES
    authEnabled,  \* cfg.Auth.Enabled, fixed at construction
    metricsEnabled, \* cfg.Metrics.Enabled, fixed at construction
    store,        \* the Redis keyspace: redis key -> value
    lastPut,      \* history: per key, the body of the last PUT answered 201
    replaced,     \* history: the keys a PUT answered 201 has overwritten
    views,        \* two namespaced views of one backend and the identifiers
                  \* they address
    call,         \* the Storage operation invoked last on the port itself
    shared,       \* what the requests share: the credential table, the
                  \* maximum entry size and the Storage handles
    srv,          \* the process: its phase, listener and connections
    req,          \* the request served last
    resp,         \* the response it got, as sent to the client
    cfg,          \* the configuration main loads and validates
    run,          \* main, Server.Run and its serving goroutine
    conc          \* requests in flight at once and the order of their steps

vars ==
    << authEnabled, metricsEnabled, store, lastPut, replaced, views, call, shared, srv,
       req, resp, cfg, run, conc >>

\* a Redis value: its bytes and the expiration it was SET with (0: none)
Absent == [present |-> FALSE, data |-> << >>, expiry |-> 0]
Entry(data) == [present |-> TRUE, data |-> data, expiry |-> 0]

(***************************************************************************)
(* Responses.                                                              *)
(***************************************************************************)
NoChallenge == [scheme |-> "", realm |-> ""]
\* `Basic realm="Gradle Build Cache"`
BasicChallenge == [scheme |-> "Basic", realm |-> "Gradle Build Cache"]

\* the object c.JSON renders as the response body; NoJSON: c.JSON not called
NoJSON == [status |-> "", storage |-> "", error |-> ""]

\* c.Status(code) / c.AbortWithStatus(code): a bare status, no body. body
\* holds the bytes written to the response, json the object rendered by c.JSON
Status(code) ==
    [status |-> code, wwwAuth |-> NoChallenge, contentType |-> "",
     contentLength |-> << >>, body |-> << >>, json |-> NoJSON]

NoResponse == Status(0)

(***************************************************************************)
(* Access Control Gate.                                                    *)
(***************************************************************************)
\* the context keys the gate sets with c.Set
NoContext == [hasRole |-> FALSE, role |-> "", username |-> ""]

Proceed(ctx) == [abort |-> FALSE, resp |-> NoResponse, ctx |-> ctx]
Abort(r) == [abort |-> TRUE, resp |-> r, ctx |-> NoContext]

\* the credentials map BasicAuth builds: a later user overwrites an earlier
\* one of the same name
Credentials(users) ==
    [u \in {users[i].Username : i \in 1..Len(users)} |->
        LET last == CHOOSE i \in 1..Len(users) :
                      /\ users[i].Username = u
                      /\ \A j \in 1..Len(users) : users[j].Username = u => j <= i
        IN [Password |-> users[last].Password, Role |-> users[last].Role]]

\* subtle.ConstantTimeCompare
ConstantTimeCompare(x, y) == IF x = y THEN 1 ELSE 0

Unauthorized == [Status(401) EXCEPT !.wwwAuth = BasicChallenge]

\* BasicAuth with the challenge header forgotten in the unknown-user branch
BasicAuth_UnknownUserBare(users, hdr) ==
    LET credentials == Credentials(users) IN
    IF hdr.kind # "basic" THEN Abort(Unauthorized)
    ELSE IF hdr.username \notin DOMAIN credentials THEN Abort(Status(401))
    ELSE IF ConstantTimeCompare(hdr.password, credentials[hdr.username].Password) # 1
      THEN Abort(Unauthorized)
    ELSE Proceed([hasRole |-> TRUE, role |-> credentials[hdr.username].Role,
                  username |-> hdr.username])

\* BasicAuth answering a missing or malformed header with 403
BasicAuth_MissingHeader403(users, hdr) ==
    LET credentials == Credentials(users) IN
    IF hdr.kind # "basic" THEN Abort([Status(403) EXCEPT !.wwwAuth = BasicChallenge])
    ELSE IF hdr.username \notin DOMAIN credentials THEN Abort(Unauthorized)
    ELSE IF ConstantTimeCompare(hdr.password, credentials[hdr.username].Password) # 1
      THEN Abort(Unauthorized)
    ELSE Proceed([hasRole |-> TRUE, role |-> credentials[hdr.username].Role,
                  username |-> hdr.username])

\* the handler BasicAuth(users) returns, applied to a request's
\* Authorization header
BasicAuth(users, hdr) ==
    LET credentials == Credentials(users) IN
    IF hdr.kind # "basic" THEN Abort(Unauthorized)
    ELSE IF hdr.username \notin DOMAIN credentials THEN Abort(Unauthorized)
    ELSE IF ConstantTimeCompare(hdr.password, credentials[hdr.username].Password) # 1
      THEN Abort(Unauthorized)
    ELSE Proceed([hasRole |-> TRUE, role |-> credentials[hdr.username].Role,
                  username |-> hdr.username])

\* the steps the BasicAuth handler executes on a request, in order: parsing
\* the Authorization header, the lookup in the credentials map, the secret
\* comparison, and storing the user in the context
BasicAuthSteps(users, hdr) ==
    LET credentials == Credentials(users) IN
    IF hdr.kind # "basic" THEN << "BasicAuth" >>
    ELSE IF hdr.username \notin DOMAIN credentials THEN << "BasicAuth", "lookup" >>
    ELSE IF ConstantTimeCompare(hdr.password, credentials[hdr.username].Password) # 1
      THEN << "BasicAuth", "lookup", "ConstantTimeCompare" >>
    ELSE << "BasicAuth", "lookup", "ConstantTimeCompare", "Set" >>

\* RequireRole that only tests that a role is set
RequireRole_AnyRole(requiredRole, ctx) ==
    IF ~ctx.hasRole THEN Abort(Status(403))
    ELSE Proceed(ctx)

\* the handler RequireRole(requiredRole) returns, applied to a context
RequireRole(requiredRole, ctx) ==
    IF ~ctx.hasRole \/ ctx.role # requiredRole THEN Abort(Status(403))
    ELSE Proceed(ctx)

\* setupRoutes with RequireRole put on the write group whatever cfg.Auth.Enabled
Gate_RequireRoleUnconditional(enabled, method, hdr) ==
    LET auth == IF enabled THEN BasicAuth(Users, hdr) ELSE Proceed(NoContext) IN
    IF auth.abort THEN auth
    ELSE IF method = "PUT" THEN RequireRole("writer", auth.ctx)
    ELSE auth

\* setupRoutes with RequireRole put in front of BasicAuth on the write group
Gate_RoleBeforeAuth(enabled, method, hdr) ==
    LET auth == IF enabled THEN BasicAuth(Users, hdr) ELSE Proceed(NoContext) IN
    IF method = "PUT" /\ enabled
      THEN IF RequireRole("writer", IF auth.abort THEN NoContext ELSE auth.ctx).abort
             THEN Abort(Status(403))
           ELSE auth
    ELSE auth

\* the middleware chain setupRoutes puts in front of a cache handler
Gate(enabled, method, hdr) ==
    LET auth == IF enabled THEN BasicAuth(Users, hdr) ELSE Proceed(NoContext) IN
    IF auth.abort THEN auth
    ELSE IF method = "PUT" /\ enabled THEN RequireRole("writer", auth.ctx)
    ELSE auth

(***************************************************************************)
(* Request bodies as the transport delivers them.                          *)
(***************************************************************************)
\* c.Request.ContentLength: the declared length, -1 when unknown (chunked)
ContentLength(body, declared) == IF declared THEN Len(body) ELSE -1

\* c.Request.Body: the bytes a read to the end yields and whether it ends in
\* a read error. An aborting client sends all but the last byte; a declared
\* length of 0 has no body to fail on.
RequestBody(body, declared, aborts) ==
    IF ~aborts THEN [data |-> body, err |-> FALSE]
    ELSE IF Len(body) = 0 THEN [data |-> << >>, err |-> ~declared]
    ELSE [data |-> SubSeq(body, 1, Len(body) - 1), err |-> TRUE]

\* io.ReadAll(io.LimitReader(r, n)): stops after n bytes, and then never
\* reaches the end of r
ReadAllLimited(r, n) ==
    IF Len(r.data) >= n THEN [data |-> SubSeq(r.data, 1, n), err |-> FALSE]
    ELSE r

\* bytesReaderAt.ReadAt with an offset one past the one asked for
ReadAt_OffByOne(data, plen, off) ==
    IF off >= Len(data) THEN [n |-> 0, p |-> << >>, err |-> "EOF"]
    ELSE LET n == IF plen < Len(data) - off - 1 THEN plen ELSE Len(data) - off - 1 IN
         [n |-> n, p |-> SubSeq(data, off + 2, off + 1 + n),
          err |-> IF n < plen THEN "EOF" ELSE ""]

\* bytesReaderAt.ReadAt(p, off) on a buffer p of length plen: the count
\* copied, the bytes copied into p, and the error ("" for nil)
ReadAt(data, plen, off) ==
    IF off >= Len(data) THEN [n |-> 0, p |-> << >>, err |-> "EOF"]
    ELSE LET n == IF plen < Len(data) - off THEN plen ELSE Len(data) - off IN
         [n |-> n, p |-> SubSeq(data, off + 1, off + n),
          err |-> IF n < plen THEN "EOF" ELSE ""]

\* io.NewSectionReader(&bytesReaderAt{data}, 0, n), read to the end: the
\* section's n bytes are asked of ReadAt from offset 0
SectionReader(data, n) ==
    [data |-> ReadAt(data, n, 0).p, err |-> FALSE]

(***************************************************************************)
(* Redis storage backend (namespace "" as constructed by NewRedisStorage). *)
(* fault: the Redis command of this call fails (backend unreachable).      *)
(***************************************************************************)
\* redisKey folding the key to lower case
redisKey_FoldCase(namespace, key) ==
    LET lower == [i \in DOMAIN key |-> IF key[i] = "A" THEN "a" ELSE key[i]] IN
    IF namespace = << >> THEN lower ELSE namespace \o << ":" >> \o lower

\* RedisStorage.redisKey: namespace and key are sequences of characters
redisKey(namespace, key) ==
    IF namespace = << >> THEN key ELSE namespace \o << ":" >> \o key

\* strings.Split(s, "/"): the segments of a path
RECURSIVE Split(_)
Split(s) ==
    IF s = << >> THEN << << >> >>
    ELSE LET rest == Split(Tail(s)) IN
         IF Head(s) = "/" THEN << << >> >> \o rest
         ELSE << << Head(s) >> \o rest[1] >> \o Tail(rest)

\* the walk of path.Clean over the segments: empty and "." segments are
\* dropped, ".." removes the segment before it, is dropped at the root of a
\* rooted path and is kept at the start of a relative one
RECURSIVE CleanSegments(_, _, _)
CleanSegments(segs, out, rooted) ==
    IF segs = << >> THEN out
    ELSE LET seg == Head(segs) IN
         IF seg = << >> \/ seg = << "." >>
           THEN CleanSegments(Tail(segs), out, rooted)
         ELSE IF seg = << ".", "." >>
           THEN IF out # << >> /\ out[Len(out)] # << ".", "." >>
                  THEN CleanSegments(Tail(segs), SubSeq(out, 1, Len(out) - 1), rooted)
                ELSE IF rooted THEN CleanSegments(Tail(segs), out, rooted)
                ELSE CleanSegments(Tail(segs), Append(out, seg), rooted)
         ELSE CleanSegments(Tail(segs), Append(out, seg), rooted)

\* strings.Join(segs, "/")
RECURSIVE JoinSlash(_)
JoinSlash(segs) ==
    IF segs = << >> THEN << >>
    ELSE IF Len(segs) = 1 THEN segs[1]
    ELSE segs[1] \o << "/" >> \o JoinSlash(Tail(segs))

\* path.Clean
Clean(p) ==
    LET rooted == p # << >> /\ p[1] = "/"
        body == JoinSlash(CleanSegments(Split(p), << >>, rooted))
        out == IF rooted THEN << "/" >> \o body ELSE body
    IN IF out = << >> THEN << "." >> ELSE out

\* path.Join(a, b): the non-empty elements joined by "/" and cleaned
Join(a, b) ==
    IF a = << >> /\ b = << >> THEN << >>
    ELSE IF a = << >> THEN Clean(b)
    ELSE IF b = << >> THEN Clean(a)
    ELSE Clean(a \o << "/" >> \o b)

\* MinIOStorage.objectKey
objectKey(namespace, key) ==
    IF namespace = << >> THEN key ELSE Join(namespace, key)

\* RedisStorage.WithNamespace / MinIOStorage.WithNamespace: a view of the
\* same backend with the given namespace, and the key addressed through it
WithNamespace(namespace, key) == [namespace |-> namespace, key |-> key]

\* Get reporting every failed GET command as ErrNotFound
RedisGet_OutageAsNotFound(st, key, fault) ==
    IF fault \/ ~st[redisKey(<< >>, key)].present
      THEN [err |-> "ErrNotFound", data |-> << >>, size |-> 0]
    ELSE [err |-> "", data |-> st[redisKey(<< >>, key)].data,
          size |-> Len(st[redisKey(<< >>, key)].data)]

\* RedisStorage.Get: err is "" (nil), "ErrNotFound" or "error"
RedisGet(st, key, fault) ==
    IF fault THEN [err |-> "error", data |-> << >>, size |-> 0]
    ELSE IF ~st[redisKey(<< >>, key)].present
      THEN [err |-> "ErrNotFound", data |-> << >>, size |-> 0]
    ELSE [err |-> "", data |-> st[redisKey(<< >>, key)].data,
          size |-> Len(st[redisKey(<< >>, key)].data)]

\* Put storing what it read of a stream that ended in an error
RedisPut_PartialOnReadError(st, key, reader, size, fault) ==
    IF fault THEN [err |-> "error", store |-> st]
    ELSE [err |-> IF reader.err THEN "error" ELSE "",
          store |-> [st EXCEPT ![redisKey(<< >>, key)] =
                        [present |-> TRUE, data |-> reader.data, expiry |-> 0]]]

\* RedisStorage.Put: reads the stream to its end, ignores size
RedisPut(st, key, reader, size, fault) ==
    IF reader.err THEN [err |-> "error", store |-> st]
    ELSE IF fault THEN [err |-> "error", store |-> st]
    ELSE [err |-> "",
          store |-> [st EXCEPT ![redisKey(<< >>, key)] =
                        [present |-> TRUE, data |-> reader.data, expiry |-> 0]]]

\* RedisStorage.Exists
RedisExists(st, key, fault) ==
    IF fault THEN [err |-> "error", exists |-> FALSE]
    ELSE [err |-> "", exists |-> st[redisKey(<< >>, key)].present]

\* Delete answering ErrNotFound for a key that holds nothing
RedisDelete_AbsentIsError(st, key, fault) ==
    IF fault THEN [err |-> "error", store |-> st]
    ELSE IF ~st[redisKey(<< >>, key)].present THEN [err |-> "ErrNotFound", store |-> st]
    ELSE [err |-> "", store |-> [st EXCEPT ![redisKey(<< >>, key)] = Absent]]

\* RedisStorage.Delete: DEL removes the key if it is there and fails only
\* when the command fails
RedisDelete(st, key, fault) ==
    IF fault THEN [err |-> "error", store |-> st]
    ELSE [err |-> "", store |-> [st EXCEPT ![redisKey(<< >>, key)] = Absent]]

\* RedisStorage.Ping: the error, "" for nil
RedisPing(fault) == IF fault THEN "error" ELSE ""

(***************************************************************************)
(* Cache endpoint handlers. Each yields the response, the store after it   *)
(* and the Storage operations it invoked.                                  *)
(***************************************************************************)
\* the arguments of a Storage.Put call; NoPut: Put was not called
NoPut == [called |-> FALSE, data |-> << >>, size |-> 0]

\* read: the bytes of the request body consumed; put: the stream and size
\* handed to Storage.Put
Outcome(r, st, calls) ==
    [resp |-> r, store |-> st, calls |-> calls, read |-> 0, put |-> NoPut]

\* an outcome reached after n bytes of the request body were consumed
WithRead(o, n) == [o EXCEPT !.read = n]

\* c.Header(key, value) on a header whose current value is cur: an empty
\* value deletes the header
Header(cur, value) == value

\* render.Reader.writeHeaders as called by c.DataFromReader: sets a header
\* only where the response has none yet
writeHeaders(cur, value) == IF cur = << >> THEN value ELSE cur

\* The response writer under c.DataFromReader, for an HTTP/1.1 client: a
\* Content-Length that does not parse as a non-negative decimal is dropped
\* and the body goes out chunked, with no Content-Length; with a valid one,
\* a write that would exceed it is refused (http.ErrContentLength) and
\* writes nothing.
ResponseWriter(code, contentType, contentLength, data) ==
    LET n == ParseContentLength(contentLength) IN
    [status |-> code, wwwAuth |-> NoChallenge, contentType |-> contentType,
     contentLength |-> IF n < 0 THEN << >> ELSE contentLength,
     body |-> IF n >= 0 /\ Len(data) > n THEN << >> ELSE data,
     json |-> NoJSON]

\* c.DataFromReader(code, size, contentType, reader, nil) on a response
\* whose Content-Length header is cur
DataFromReader(cur, code, size, contentType, data) ==
    ResponseWriter(code, contentType,
                   IF size >= 0 THEN writeHeaders(cur, FormatInt(size)) ELSE cur,
                   data)

\* Get without the errors.Is(err, storage.ErrNotFound) test
Get_NotFoundAsError(st, key, fault) ==
    IF key = << >> THEN Outcome(Status(400), st, << >>)
    ELSE LET r == RedisGet(st, key, fault) IN
         IF r.err # "" THEN Outcome(Status(500), st, << "Get" >>)
         ELSE Outcome(DataFromReader(Header(<< >>, StringOfRune(r.size)),
                                     200, r.size, "application/octet-stream", r.data),
                      st, << "Get" >>)

\* Get calling the store a second time when the first call fails
Get_RetryOnce(st, key, fault) ==
    IF key = << >> THEN Outcome(Status(400), st, << >>)
    ELSE LET r == RedisGet(st, key, fault) IN
         IF r.err = "ErrNotFound" THEN Outcome(Status(404), st, << "Get" >>)
         ELSE IF r.err # "" THEN Outcome(Status(500), st, << "Get", "Get" >>)
         ELSE Outcome(DataFromReader(Header(<< >>, StringOfRune(r.size)),
                                     200, r.size, "application/octet-stream", r.data),
                      st, << "Get" >>)

\* Get removing the entry it has served
Get_EvictOnRead(st, key, fault) ==
    IF key = << >> THEN Outcome(Status(400), st, << >>)
    ELSE LET r == RedisGet(st, key, fault) IN
         IF r.err = "ErrNotFound" THEN Outcome(Status(404), st, << "Get" >>)
         ELSE IF r.err # "" THEN Outcome(Status(500), st, << "Get" >>)
         ELSE Outcome(DataFromReader(Header(<< >>, StringOfRune(r.size)),
                                     200, r.size, "application/octet-stream", r.data),
                      [st EXCEPT ![redisKey(<< >>, key)] = Absent], << "Get" >>)

\* CacheHandler.Get
Get(st, key, fault) ==
    IF key = << >> THEN Outcome(Status(400), st, << >>)
    ELSE LET r == RedisGet(st, key, fault) IN
         IF r.err = "ErrNotFound" THEN Outcome(Status(404), st, << "Get" >>)
         ELSE IF r.err # "" THEN Outcome(Status(500), st, << "Get" >>)
         ELSE Outcome(DataFromReader(Header(<< >>, StringOfRune(r.size)),
                                     200, r.size, "application/octet-stream", r.data),
                      st, << "Get" >>)

\* Head answering a storage failure with the error text in a JSON body
CacheHead_LeaksError(st, key, fault) ==
    IF key = << >> THEN Outcome(Status(400), st, << >>)
    ELSE LET r == RedisExists(st, key, fault) IN
         IF r.err # ""
           THEN Outcome([Status(500) EXCEPT
                            !.json = [status |-> "", storage |-> "", error |-> r.err]],
                        st, << "Exists" >>)
         ELSE IF ~r.exists THEN Outcome(Status(404), st, << "Exists" >>)
         ELSE Outcome(Status(200), st, << "Exists" >>)

\* CacheHandler.Head (Head is taken by Sequences)
CacheHead(st, key, fault) ==
    IF key = << >> THEN Outcome(Status(400), st, << >>)
    ELSE LET r == RedisExists(st, key, fault) IN
         IF r.err # "" THEN Outcome(Status(500), st, << "Exists" >>)
         ELSE IF ~r.exists THEN Outcome(Status(404), st, << "Exists" >>)
         ELSE Outcome(Status(200), st, << "Exists" >>)

\* an outcome reached through h.storage.Put(ctx, key, reader, size): the
\* backend consumed the stream it was handed
PutOutcome(r, st, calls, reader, size) ==
    [Outcome(r, st, calls) EXCEPT
        !.read = Len(reader.data),
        !.put = [called |-> TRUE, data |-> reader.data, size |-> size]]

\* the tail of Put removing the entry when the store call fails
StorePut_DeleteOnFailure(st, key, reader, contentLength, fault) ==
    LET r == RedisPut(st, key, reader, contentLength, fault) IN
    IF r.err # ""
      THEN PutOutcome(Status(500), [st EXCEPT ![redisKey(<< >>, key)] = Absent],
                      << "Put", "Delete" >>, reader, contentLength)
    ELSE PutOutcome(Status(201), r.store, << "Put" >>, reader, contentLength)

\* the tail of CacheHandler.Put: the store call and its answer; the store is
\* left as the call left it, failed or not
StorePut(st, key, reader, contentLength, fault) ==
    LET r == RedisPut(st, key, reader, contentLength, fault) IN
    IF r.err # "" THEN PutOutcome(Status(500), r.store, << "Put" >>, reader, contentLength)
    ELSE PutOutcome(Status(201), r.store, << "Put" >>, reader, contentLength)

\* Put without the test of the declared Content-Length
Put_NoDeclaredCheck(st, maxEntrySize, key, contentLength, body, fault) ==
    IF key = << >> THEN Outcome(Status(400), st, << >>)
    ELSE IF contentLength < 0 THEN
        LET read == ReadAllLimited(body, maxEntrySize + 1) IN
        WithRead(
        IF read.err THEN Outcome(Status(500), st, << >>)
        ELSE IF Len(read.data) > maxEntrySize THEN Outcome(Status(413), st, << >>)
        ELSE StorePut(st, key, SectionReader(read.data, Len(read.data)),
                      Len(read.data), fault),
                 Len(read.data))
    ELSE StorePut(st, key, body, contentLength, fault)

\* Put reading an unknown-length body through io.LimitReader(body, maxEntrySize)
Put_LimitAtMax(st, maxEntrySize, key, contentLength, body, fault) ==
    IF key = << >> THEN Outcome(Status(400), st, << >>)
    ELSE IF contentLength > maxEntrySize THEN Outcome(Status(413), st, << >>)
    ELSE IF contentLength < 0 THEN
        LET read == ReadAllLimited(body, maxEntrySize) IN
        WithRead(
        IF read.err THEN Outcome(Status(500), st, << >>)
        ELSE IF Len(read.data) > maxEntrySize THEN Outcome(Status(413), st, << >>)
        ELSE StorePut(st, key, SectionReader(read.data, Len(read.data)),
                      Len(read.data), fault),
                 Len(read.data))
    ELSE StorePut(st, key, body, contentLength, fault)

\* Put without the test of the length it measured on an unknown-length body
Put_NoMeasuredCheck(st, maxEntrySize, key, contentLength, body, fault) ==
    IF key = << >> THEN Outcome(Status(400), st, << >>)
    ELSE IF contentLength > maxEntrySize THEN Outcome(Status(413), st, << >>)
    ELSE IF contentLength < 0 THEN
        LET read == ReadAllLimited(body, maxEntrySize + 1) IN
        WithRead(
        IF read.err THEN Outcome(Status(500), st, << >>)
        ELSE StorePut(st, key, SectionReader(read.data, Len(read.data)),
                      Len(read.data), fault),
                 Len(read.data))
    ELSE StorePut(st, key, body, contentLength, fault)

\* Put reading the body to its end before it tests the declared length
Put_ReadBeforeCheck(st, maxEntrySize, key, contentLength, body, fault) ==
    IF key = << >> THEN Outcome(Status(400), st, << >>)
    ELSE IF contentLength > maxEntrySize
      THEN WithRead(Outcome(Status(413), st, << >>), Len(body.data))
    ELSE IF contentLength < 0 THEN
        LET read == ReadAllLimited(body, maxEntrySize + 1) IN
        WithRead(
        IF read.err THEN Outcome(Status(500), st, << >>)
        ELSE IF Len(read.data) > maxEntrySize THEN Outcome(Status(413), st, << >>)
        ELSE StorePut(st, key, SectionReader(read.data, Len(read.data)),
                      Len(read.data), fault),
                 Len(read.data))
    ELSE StorePut(st, key, body, contentLength, fault)

\* CacheHandler.Put
Put(st, maxEntrySize, key, contentLength, body, fault) ==
    IF key = << >> THEN Outcome(Status(400), st, << >>)
    ELSE IF contentLength > maxEntrySize THEN Outcome(Status(413), st, << >>)
    ELSE IF contentLength < 0 THEN
        LET read == ReadAllLimited(body, maxEntrySize + 1) IN
        WithRead(
        IF read.err THEN Outcome(Status(500), st, << >>)
        ELSE IF Len(read.data) > maxEntrySize THEN Outcome(Status(413), st, << >>)
        ELSE StorePut(st, key, SectionReader(read.data, Len(read.data)),
                      Len(read.data), fault),
                 Len(read.data))
    ELSE StorePut(st, key, body, contentLength, fault)

(***************************************************************************)
(* Router: one request through the gate and the handler.                   *)
(***************************************************************************)
\* a request on /cache/<key>
Request(method, key, hdr, body, declared, aborts, fault) ==
    [method |-> method, path |-> "/cache/", key |-> key, hdr |-> hdr, body |-> body,
     declared |-> declared, aborts |-> aborts, fault |-> fault]

\* a bodyless request on another path
RequestAt(method, path, hdr, fault) ==
    [Request(method, << >>, hdr, << >>, FALSE, FALSE, fault) EXCEPT !.path = path]

NoRequest == RequestAt("", "", NoAuthHeader, FALSE)

\* the handler chain with a gate that answers without aborting the chain
Serve_NoAbort(enabled, st, r) ==
    LET gate == Gate(enabled, r.method, r.hdr)
        ran == CASE r.method = "GET" -> Get(st, r.key, r.fault)
                 [] r.method = "HEAD" -> CacheHead(st, r.key, r.fault)
                 [] r.method = "PUT" ->
                      Put(st, MaxEntrySize, r.key, ContentLength(r.body, r.declared),
                          RequestBody(r.body, r.declared, r.aborts), r.fault)
    IN  [reached |-> TRUE] @@
        (IF gate.abort THEN [ran EXCEPT !.resp = gate.resp] ELSE ran)

\* the handler chain of the route /cache/:key of setupRoutes for one request
\* r on store st
Serve(enabled, st, r) ==
    LET gate == Gate(enabled, r.method, r.hdr) IN
    IF gate.abort THEN [reached |-> FALSE] @@ Outcome(gate.resp, st, << >>)
    ELSE [reached |-> TRUE] @@
         CASE r.method = "GET" -> Get(st, r.key, r.fault)
           [] r.method = "HEAD" -> CacheHead(st, r.key, r.fault)
           [] r.method = "PUT" ->
                Put(st, MaxEntrySize, r.key, ContentLength(r.body, r.declared),
                    RequestBody(r.body, r.declared, r.aborts), r.fault)

\* "pong"
Pong == << 112, 111, 110, 103 >>

\* Server.handlePing: c.String(200, "pong")
handlePing ==
    [Status(200) EXCEPT !.contentType = "text/plain; charset=utf-8", !.body = Pong]

\* handleHealth answering without looking at the result of Ping
handleHealth_IgnoresPing(st, fault) ==
    Outcome([Status(200) EXCEPT
                !.contentType = "application/json; charset=utf-8",
                !.json = [status |-> "healthy", storage |-> "connected",
                          error |-> ""]],
            st, << "Ping" >>)

\* Server.handleHealth
handleHealth(st, fault) ==
    LET err == RedisPing(fault) IN
    IF err # ""
      THEN Outcome([Status(503) EXCEPT
                       !.contentType = "application/json; charset=utf-8",
                       !.json = [status |-> "unhealthy", storage |-> "unreachable",
                                 error |-> err]],
                   st, << "Ping" >>)
    ELSE Outcome([Status(200) EXCEPT
                     !.contentType = "application/json; charset=utf-8",
                     !.json = [status |-> "healthy", storage |-> "connected",
                               error |-> ""]],
                 st, << "Ping" >>)

\* the exposition page promhttp.Handler() serves: it starts with "#"
MetricsPage == << 35 >>

\* gin.WrapH(promhttp.Handler())
handleMetrics ==
    [Status(200) EXCEPT !.contentType = "text/plain; version=0.0.4; charset=utf-8",
                        !.body = MetricsPage]

\* "404 page not found"
default404Body ==
    << 52, 48, 52, 32, 112, 97, 103, 101, 32, 110, 111, 116, 32, 102, 111, 117, 110,
       100 >>

\* the engine's answer when no route matches: gin.New() leaves
\* HandleMethodNotAllowed off, so a known path with another method is
\* answered like an unknown path
NoRoute ==
    [Status(404) EXCEPT !.contentType = "text/plain", !.body = default404Body]

\* setupRoutes registering /metrics whatever cfg.Metrics.Enabled
Route_MetricsAlways(metrics, method, path, key) ==
    CASE method = "GET" /\ path = "/ping" -> "handlePing"
      [] method = "GET" /\ path = "/health" -> "handleHealth"
      [] method = "GET" /\ path = "/metrics" -> "handleMetrics"
      [] /\ method \in {"GET", "HEAD", "PUT"}
         /\ path = "/cache/"
         /\ key # << >>
         /\ \A i \in 1..Len(key) : key[i] # "/" -> "cache"
      [] OTHER -> "NoRoute"

\* the routes setupRoutes registers, as the engine matches them: the
\* parameter :key matches one non-empty path segment
Route(metrics, method, path, key) ==
    CASE method = "GET" /\ path = "/ping" -> "handlePing"
      [] method = "GET" /\ path = "/health" -> "handleHealth"
      [] method = "GET" /\ path = "/metrics" /\ metrics -> "handleMetrics"
      [] /\ method \in {"GET", "HEAD", "PUT"}
         /\ path = "/cache/"
         /\ key # << >>
         /\ \A i \in 1..Len(key) : key[i] # "/" -> "cache"
      [] OTHER -> "NoRoute"

\* the engine serving one request r on store st: the route matched, whether
\* a cache handler was reached, the steps BasicAuth took, and the outcome
Router(enabled, metrics, st, r) ==
    LET route == Route(metrics, r.method, r.path, r.key) IN
    [route |-> route] @@
    CASE route = "handlePing" ->
           [reached |-> FALSE, steps |-> << >>] @@ Outcome(handlePing, st, << >>)
      [] route = "handleHealth" ->
           [reached |-> FALSE, steps |-> << >>] @@ handleHealth(st, r.fault)
      [] route = "handleMetrics" ->
           [reached |-> FALSE, steps |-> << >>] @@ Outcome(handleMetrics, st, << >>)
      [] route = "cache" ->
           [steps |-> IF enabled THEN BasicAuthSteps(Users, r.hdr) ELSE << >>]
           @@ Serve(enabled, st, r)
      [] route = "NoRoute" ->
           [reached |-> FALSE, steps |-> << >>] @@ Outcome(NoRoute, st, << >>)

\* req of a server that has served nothing yet
NoneServed ==
    [r |-> NoRequest, route |-> "", reached |-> FALSE, steps |-> << >>,
     calls |-> << >>, read |-> 0, put |-> NoPut]

\* no view made with WithNamespace
NoViews ==
    [a |-> WithNamespace(<< >>, << >>), b |-> WithNamespace(<< >>, << >>),
     resolved |-> FALSE, redis |-> << >>, minio |-> << >>]

\* no Storage operation invoked on the port yet
NoCall ==
    [op |-> "", key |-> << >>, fault |-> FALSE, err |-> "", exists |-> FALSE,
     data |-> << >>, before |-> [k \in Keys |-> Absent]]

\* the value of a Storage struct: RedisStorage{client, namespace}
Storage(client, namespace) == [client |-> client, namespace |-> namespace]

\* what the constructors leave for the requests to share: the credentials
\* map of BasicAuth, the handler's maxEntrySize, and the Storage structs
\* allocated, the first being the handle of NewRedisStorage
Constructed ==
    [credentials |-> Credentials(Users), maxEntrySize |-> MaxEntrySize,
     handles |-> << Storage("redis", << >>) >>]

\* the grace period of Run's shutdown context, in seconds
GracePeriod == 10

\* the connections clients open
Conns == {"c1", "c2"}

\* a connection not opened yet. state: none, active (a request in flight),
\* done, gone (the client went away), cut (ended with the process),
\* refused; left: the seconds its request still takes; atSignal: left when
\* the shutdown began; op, ctx and call: the Storage call the request makes,
\* the context it is bound to, and its state
NoConn ==
    [state |-> "none", left |-> 0, atSignal |-> 0, op |-> "", ctx |-> "",
     call |-> "none"]

\* the process once Run has started ListenAndServe
\* before main has loaded a configuration, entered Run or accepted a request
NotStarted == [pc |-> "none", stage |-> "none"]
NoClients == [procs |-> << >>, stored |-> << >>]

Started ==
    [phase |-> "running", listening |-> TRUE, elapsed |-> 0, cause |-> "",
     conns |-> [c \in Conns |-> NoConn]]

\* the server main builds from the default configuration of the metrics
\* endpoint, with authentication on or off
Init ==
    /\ authEnabled \in BOOLEAN
    /\ metricsEnabled = TRUE
    /\ views = NoViews
    /\ call = NoCall
    /\ shared = Constructed
    /\ srv = Started
    /\ cfg = NotStarted
    /\ run = NotStarted
    /\ conc = NoClients
    /\ store = [k \in Keys |-> Absent]
    /\ lastPut = [k \in Keys |-> Absent]
    /\ replaced = {}
    /\ req = NoneServed
    /\ resp = NoResponse

\* one request, served start to end
Handle(r) ==
    \E out \in {Router(authEnabled, metricsEnabled, store, r)} :
        /\ req' = [r |-> r, route |-> out.route, reached |-> out.reached,
                   steps |-> out.steps, calls |-> out.calls, read |-> out.read,
                   put |-> out.put]
        /\ resp' = out.resp
        /\ store' = out.store
        /\ lastPut' = IF out.reached /\ r.method = "PUT" /\ out.resp.status = 201
                        THEN [lastPut EXCEPT ![r.key] = Entry(r.body)]
                        ELSE lastPut
        /\ replaced' = IF out.reached /\ r.method = "PUT" /\ out.resp.status = 201
                          /\ lastPut[r.key].present
                         THEN replaced \cup {r.key}
                         ELSE replaced
        /\ UNCHANGED << authEnabled, metricsEnabled, views, call, shared, srv, cfg, run,
                     conc >>

\* The requests the clients send. Whether the gate admits a request does not
\* depend on its body, so every Authorization header is sent with two bodies
\* and every body with the writer's header; storage faults and client aborts
\* hit requests that carry valid credentials.
Writer == BasicHeader("writer", "wpw")
Reader == BasicHeader("reader", "rpw")

ReadRequests(method) ==
    {Request(method, k, h, << >>, FALSE, FALSE, FALSE) : k \in Keys, h \in AuthHeaders}
    \cup {Request(method, k, Reader, << >>, FALSE, FALSE, TRUE) : k \in Keys}

PutRequests ==
    {Request("PUT", k, Writer, b, d, FALSE, FALSE) :
        k \in Keys, b \in Bodies, d \in BOOLEAN}
    \cup {Request("PUT", k, Writer, Fill(n, 1), d, f = "abort", f = "fault") :
        k \in Keys, n \in BodyLens \ {0}, d \in BOOLEAN, f \in {"abort", "fault"}}
    \cup {Request("PUT", k, h, Fill(n, 1), TRUE, FALSE, FALSE) :
        k \in Keys, h \in AuthHeaders, n \in {1, MaxEntrySize + 1}}

\* /ping and /health, sent without credentials and with bad ones
PingRequests ==
    {RequestAt("GET", "/ping", h, f) :
        h \in {NoAuthHeader, BasicHeader("ghost", "rpw")}, f \in BOOLEAN}

HealthRequests ==
    {RequestAt("GET", "/health", h, f) :
        h \in {NoAuthHeader, BasicHeader("ghost", "rpw")}, f \in BOOLEAN}

GetRequest == \E r \in ReadRequests("GET") : Handle(r)

HeadRequest == \E r \in ReadRequests("HEAD") : Handle(r)

PutRequest == \E r \in PutRequests : Handle(r)

PingRequest == \E r \in PingRequests : Handle(r)

HealthRequest == \E r \in HealthRequests : Handle(r)

Next == GetRequest \/ HeadRequest \/ PutRequest \/ PingRequest \/ HealthRequest

Spec == Init /\ [][Next]_vars

(***************************************************************************)
(* The engine under every configuration, facing requests of every method   *)
(* on registered and unregistered paths.                                   *)
(***************************************************************************)
InitRouter ==
    /\ authEnabled \in BOOLEAN
    /\ metricsEnabled \in BOOLEAN
    /\ views = NoViews
    /\ call = NoCall
    /\ shared = Constructed
    /\ srv = Started
    /\ cfg = NotStarted
    /\ run = NotStarted
    /\ conc = NoClients
    /\ store = [k \in Keys |-> Absent]
    /\ lastPut = [k \in Keys |-> Absent]
    /\ replaced = {}
    /\ req = NoneServed
    /\ resp = NoResponse

Methods == {"GET", "HEAD", "PUT", "DELETE", "POST"}

\* the paths requested: the registered ones, /cache/ followed by no key, by
\* a key and by two segments, and an unregistered path
Targets ==
    {[path |-> p, key |-> << >>] : p \in {"/ping", "/health", "/metrics", "/other"}}
    \cup {[path |-> "/cache/", key |-> k] :
            k \in {<< >>, << "k", "1" >>, << "k", "/", "1" >>}}

RouterRequests ==
    {[Request(m, t.key, h, Fill(1, 1), TRUE, FALSE, FALSE) EXCEPT !.path = t.path] :
        m \in Methods, t \in Targets, h \in {NoAuthHeader, Writer}}

AnyRequest == \E r \in RouterRequests : Handle(r)

NextRouter == AnyRequest

SpecRouter == InitRouter /\ [][NextRouter]_vars

(***************************************************************************)
(* The Storage port on its own: its operations invoked directly on the     *)
(* Redis backend, in any order.                                            *)
(***************************************************************************)
\* the contents stored through the port
Contents == {<< >>, Fill(1, 1), Fill(1, 2)}

Called(op, key, fault, err, exists, data) ==
    [op |-> op, key |-> key, fault |-> fault, err |-> err, exists |-> exists,
     data |-> data, before |-> store]

StorageFrame ==
    UNCHANGED << authEnabled, metricsEnabled, lastPut, replaced, views, shared, srv,
                 req, resp, cfg, run, conc >>

StorageGet(key, fault) ==
    /\ \E r \in {RedisGet(store, key, fault)} :
          call' = Called("Get", key, fault, r.err, FALSE, r.data)
    /\ store' = store
    /\ StorageFrame

StorageExists(key, fault) ==
    /\ \E r \in {RedisExists(store, key, fault)} :
          call' = Called("Exists", key, fault, r.err, r.exists, << >>)
    /\ store' = store
    /\ StorageFrame

StoragePut(key, data, fault) ==
    /\ \E r \in {RedisPut(store, key, [data |-> data, err |-> FALSE], Len(data), fault)} :
          /\ call' = Called("Put", key, fault, r.err, FALSE, data)
          /\ store' = r.store
    /\ StorageFrame

StorageDelete(key, fault) ==
    /\ \E r \in {RedisDelete(store, key, fault)} :
          /\ call' = Called("Delete", key, fault, r.err, FALSE, << >>)
          /\ store' = r.store
    /\ StorageFrame

NextStorage ==
    \E key \in Keys, fault \in BOOLEAN :
        \/ StorageGet(key, fault)
        \/ StorageExists(key, fault)
        \/ \E data \in Contents : StoragePut(key, data, fault)
        \/ StorageDelete(key, fault)

SpecStorage == Init /\ [][NextStorage]_vars

(***************************************************************************)
(* The life of the process: Run serving connections, the shutdown signal,  *)
(* the grace period and the exit. Time passes in seconds.                  *)
(***************************************************************************)
\* the seconds a request takes, its Storage call included
Durations == {1, GracePeriod - 1, GracePeriod, GracePeriod + 1}

\* the Storage operations the handlers call
Operations == {"Get", "Exists", "Put", "Ping"}

\* Put bound to a context of its own
StorageCtx_Background(op) == IF op = "Put" THEN "background" ELSE "request"

\* the context a handler passes to the Storage operation: c.Request.Context()
\* in Get, Head, Put and handleHealth
StorageCtx(op) == "request"

Active(s) == {c \in Conns : s.conns[c].state = "active"}

\* Shutdown giving up at once when a request is in flight
ShutdownPoll_NoGrace(s) ==
    IF Active(s) = {} THEN "nil" ELSE "DeadlineExceeded"

\* srv.Shutdown(shutdownCtx) while it waits: nil once no connection is
\* active, the context's error once the grace period is over
ShutdownPoll(s) ==
    IF Active(s) = {} THEN "nil"
    ELSE IF s.elapsed >= GracePeriod THEN "DeadlineExceeded"
    ELSE "waiting"

\* the process ends: what is still in flight ends with it
Exit(s, cause) ==
    [s EXCEPT !.phase = "exited", !.listening = FALSE, !.cause = cause,
              !.conns = [c \in Conns |->
                  [s.conns[c] EXCEPT
                      !.state = IF @ = "active" THEN "cut" ELSE @,
                      !.call = IF @ = "inflight" THEN "killed" ELSE @]]]

\* one second of a connection: a request with a second left completes,
\* unless it loses the race against the deadline (late)
Advance(conn, late) ==
    IF conn.state # "active" THEN conn
    ELSE IF conn.left > 1 \/ late THEN [conn EXCEPT !.left = @ - 1]
    ELSE [conn EXCEPT !.left = 0, !.state = "done", !.call = "returned"]

LifeFrame ==
    UNCHANGED << authEnabled, metricsEnabled, store, lastPut, replaced, views, call,
                 shared, req, resp, cfg, run, conc >>

\* the listener accepts a connection and its request calls the store
Accept(c, op, d) ==
    /\ srv.listening
    /\ srv.conns[c].state = "none"
    /\ srv' = [srv EXCEPT !.conns[c] =
                  [state |-> "active", left |-> d, atSignal |-> 0, op |-> op,
                   ctx |-> StorageCtx(op), call |-> "inflight"]]
    /\ LifeFrame

\* a connection attempt on a closed listener
Refuse(c) ==
    /\ srv.phase = "shutdown"
    /\ ~srv.listening
    /\ srv.conns[c].state = "none"
    /\ srv' = [srv EXCEPT !.conns[c].state = "refused"]
    /\ LifeFrame

\* the client goes away: the request's context is cancelled, and with it
\* the Storage call bound to it
Disconnect(c) ==
    /\ srv.phase \in {"running", "shutdown"}
    /\ srv.conns[c].state = "active"
    /\ srv' = [srv EXCEPT !.conns[c].state = "gone",
                          !.conns[c].call = IF srv.conns[c].ctx = "request"
                                              THEN "aborted" ELSE @]
    /\ LifeFrame

\* a second passes
Tick ==
    /\ srv.phase \in {"running", "shutdown"}
    /\ Active(srv) # {}
    /\ srv.phase = "shutdown" => ShutdownPoll(srv) = "waiting"
    /\ \E late \in SUBSET {c \in Active(srv) :
                              /\ srv.phase = "shutdown"
                              /\ srv.elapsed + 1 = GracePeriod
                              /\ srv.conns[c].left = 1} :
          srv' = [srv EXCEPT
                     !.elapsed = IF srv.phase = "shutdown" THEN @ + 1 ELSE @,
                     !.conns = [c \in Conns |-> Advance(srv.conns[c], c \in late)]]
    /\ LifeFrame

\* SIGINT or SIGTERM: main cancels ctx and Run calls srv.Shutdown, which
\* closes the listener first
Signal ==
    /\ srv.phase = "running"
    /\ srv' = [srv EXCEPT !.phase = "shutdown", !.listening = FALSE, !.elapsed = 0,
                          !.conns = [c \in Conns |->
                              [srv.conns[c] EXCEPT !.atSignal = srv.conns[c].left]]]
    /\ LifeFrame

\* Shutdown returns nil, Run returns nil, main returns
ShutdownReturns ==
    /\ srv.phase = "shutdown"
    /\ ShutdownPoll(srv) = "nil"
    /\ srv' = [srv EXCEPT !.phase = "stopped", !.cause = "shutdown"]
    /\ LifeFrame

\* Shutdown returns the deadline's error, Run returns it, and main ends the
\* process with logger.Fatal
GraceExpires ==
    /\ srv.phase = "shutdown"
    /\ ShutdownPoll(srv) = "DeadlineExceeded"
    /\ srv' = Exit(srv, "grace")
    /\ LifeFrame

\* ListenAndServe fails: Run returns the error from errCh and main ends the
\* process with logger.Fatal
ServeFails ==
    /\ srv.phase = "running"
    /\ srv' = Exit(srv, "serve")
    /\ LifeFrame

NextLife ==
    \/ \E c \in Conns, op \in Operations, d \in Durations : Accept(c, op, d)
    \/ \E c \in Conns : Refuse(c)
    \/ \E c \in Conns : Disconnect(c)
    \/ Tick
    \/ Signal
    \/ ShutdownReturns
    \/ GraceExpires
    \/ ServeFails

SpecLife == Init /\ [][NextLife]_vars

(***************************************************************************)
(* Namespaced views: two views of one backend, each addressing one key.    *)
(***************************************************************************)
MaxNsLen == 1
MaxKeyLen == 3

\* the sequences over chars of length lo..hi
SeqsOf(chars, lo, hi) == UNION {[1..n -> chars] : n \in lo..hi}

Namespaces == SeqsOf({"a", "b"}, 0, MaxNsLen)
NsKeys == SeqsOf({"a", ":", "/", "."}, 1, MaxKeyLen)

InitNamespace ==
    /\ authEnabled = FALSE
    /\ metricsEnabled = TRUE
    /\ store = [k \in Keys |-> Absent]
    /\ lastPut = [k \in Keys |-> Absent]
    /\ replaced = {}
    /\ req = NoneServed
    /\ resp = NoResponse
    /\ call = NoCall
    /\ shared = Constructed
    /\ srv = Started
    /\ cfg = NotStarted
    /\ run = NotStarted
    /\ conc = NoClients
    /\ \E n1 \in Namespaces, n2 \in Namespaces, k1 \in NsKeys, k2 \in NsKeys :
          /\ n1 # n2
          /\ views = [NoViews EXCEPT !.a = WithNamespace(n1, k1),
                                     !.b = WithNamespace(n2, k2)]

\* both views address their key: the identifier each backend is asked for
Resolve ==
    /\ ~views.resolved
    /\ views' = [views EXCEPT
                    !.resolved = TRUE,
                    !.redis = << redisKey(views.a.namespace, views.a.key),
                                 redisKey(views.b.namespace, views.b.key) >>,
                    !.minio = << objectKey(views.a.namespace, views.a.key),
                                 objectKey(views.b.namespace, views.b.key) >>]
    /\ UNCHANGED << authEnabled, metricsEnabled, store, lastPut, replaced, req, resp,
                    call, shared, srv, cfg, run, conc >>

NextNamespace == Resolve

SpecNamespace == InitNamespace /\ [][NextNamespace]_vars

(***************************************************************************)
(* The state the requests share: requests of every kind served while views *)
(* of the Storage handle are made.                                         *)
(***************************************************************************)
MaxViews == 2

\* WithNamespace writing the namespace into the struct it was called on
WithNamespaceOn_InPlace(handles, s, namespace) ==
    [handles |-> [handles EXCEPT ![s].namespace = namespace], view |-> s]

\* s.WithNamespace(namespace) on the Storage struct at s: a new struct with
\* the client of s and the namespace given; view is where it is allocated
WithNamespaceOn(handles, s, namespace) ==
    [handles |-> Append(handles, Storage(handles[s].client, namespace)),
     view |-> Len(handles) + 1]

\* a caller makes a view of one of the Storage structs
MakeView(s, namespace) ==
    /\ Len(shared.handles) < MaxViews
    /\ s \in DOMAIN shared.handles
    /\ shared' = [shared EXCEPT
                     !.handles = WithNamespaceOn(shared.handles, s, namespace).handles]
    /\ UNCHANGED << authEnabled, metricsEnabled, store, lastPut, replaced, views, call,
                    srv, req, resp, cfg, run, conc >>

NextShared ==
    \/ AnyRequest
    \/ \E s \in 1..MaxViews, namespace \in Namespaces \ {<< >>} : MakeView(s, namespace)

SpecShared == InitRouter /\ [][NextShared]_vars

(***************************************************************************)
(* Configuration: what main loads, validates and builds the server from.   *)
(***************************************************************************)
MaxUsers == 2
MaxMantissa == 17
MaxExp == 4

\* int64: four 16-bit limbs, least significant first, two's complement
Base == 2^16
Int64(n) == << n, 0, 0, 0 >>

\* the limbs i.. of x * m + carry, cut at the width of x (the high carry is
\* lost: the product wraps)
RECURSIVE MulLimbs(_, _, _, _)
MulLimbs(x, m, i, carry) ==
    IF i > Len(x) THEN << >>
    ELSE LET v == x[i] * m + carry
         IN << v % Base >> \o MulLimbs(x, m, i + 1, v \div Base)

\* x * m in the width of x, for 0 <= m <= 1024
Mul(x, m) == MulLimbs(x, m, 1, 0)

\* an environment: the four variables Load reads, "" when unset
Env(ru, rp, wu, wp) ==
    [CACHE_READER_USERNAME |-> ru, CACHE_READER_PASSWORD |-> rp,
     CACHE_WRITER_USERNAME |-> wu, CACHE_WRITER_PASSWORD |-> wp]

\* a configuration file with its required storage settings present and TLS
\* off
Config(enabled, users, mb) ==
    [Storage |-> [Endpoint |-> "redis:6379", AccessKey |-> "ak", SecretKey |-> "sk",
                  Bucket |-> "cache"],
     Cache |-> [MaxEntrySizeMB |-> mb],
     Auth |-> [Enabled |-> enabled, Users |-> users],
     Server |-> [TLS |-> [Enabled |-> FALSE, CertFile |-> "", KeyFile |-> ""]]]

\* overrideUserFromEnv(cfg, index, usernameEnv, passwordEnv) in environment
\* env (os.Getenv gives "" for a variable that is not set); index counts from 0
overrideUserFromEnv(c, env, index, usernameEnv, passwordEnv) ==
    IF index >= Len(c.Auth.Users) THEN c
    ELSE [c EXCEPT !.Auth.Users[index + 1].Username =
                       IF env[usernameEnv] # "" THEN env[usernameEnv] ELSE @,
                   !.Auth.Users[index + 1].Password =
                       IF env[passwordEnv] # "" THEN env[passwordEnv] ELSE @]

\* Load: the unmarshalled file with the overrides of the environment
Load(file, env) ==
    overrideUserFromEnv(
        overrideUserFromEnv(file, env, 0, "CACHE_READER_USERNAME",
                            "CACHE_READER_PASSWORD"),
        env, 1, "CACHE_WRITER_USERNAME", "CACHE_WRITER_PASSWORD")

\* Validate that accepts users without a password
Validate_NoPasswordCheck(c) ==
    IF c.Storage.Endpoint = "" THEN "storage.endpoint is required"
    ELSE IF c.Auth.Enabled /\ Len(c.Auth.Users) = 0
      THEN "auth.users is required when auth is enabled"
    ELSE IF \E i \in 1..Len(c.Auth.Users) : c.Auth.Users[i].Username = ""
      THEN "auth.users[].username is required"
    ELSE ""

\* Config.Validate: the error it returns, "" for nil
Validate(c) ==
    IF c.Storage.Endpoint = "" THEN "storage.endpoint is required"
    ELSE IF c.Storage.AccessKey = "" THEN "storage.access_key is required"
    ELSE IF c.Storage.SecretKey = "" THEN "storage.secret_key is required"
    ELSE IF c.Storage.Bucket = "" THEN "storage.bucket is required"
    ELSE IF c.Auth.Enabled /\ Len(c.Auth.Users) = 0
      THEN "auth.users is required when auth is enabled"
    ELSE LET users == c.Auth.Users
             bad(u) == u.Username = "" \/ u.Password = ""
             \* the first user the loop rejects, 0 if none
             i == IF \E j \in 1..Len(users) : bad(users[j])
                    THEN CHOOSE j \in 1..Len(users) :
                             bad(users[j]) /\ \A l \in 1..(j - 1) : ~bad(users[l])
                    ELSE 0
         IN IF i # 0
              THEN IF users[i].Username = ""
                     THEN "auth.users[].username is required"
                     ELSE "auth.users[].password is required"
            ELSE IF c.Server.TLS.Enabled /\ c.Server.TLS.CertFile = ""
              THEN "server.tls.cert_file is required when TLS is enabled"
            ELSE IF c.Server.TLS.Enabled /\ c.Server.TLS.KeyFile = ""
              THEN "server.tls.key_file is required when TLS is enabled"
            ELSE ""

\* Config.MaxEntrySizeBytes: MaxEntrySizeMB * 1024 * 1024 in int64
MaxEntrySizeBytes(c) == Mul(Mul(c.Cache.MaxEntrySizeMB, 1024), 1024)

\* what a request with Authorization header hdr is admitted to by the gate
\* setupRoutes builds from the configuration
Admit(c, hdr) ==
    IF ~c.Auth.Enabled THEN [read |-> TRUE, write |-> TRUE]
    ELSE LET auth == BasicAuth(c.Auth.Users, hdr)
         IN IF auth.abort THEN [read |-> FALSE, write |-> FALSE]
            ELSE [read |-> TRUE, write |-> ~RequireRole("writer", auth.ctx).abort]

\* the lists of users a configuration file may hold
UserLists ==
    LET users == [Username : {"", "alice", "bob"}, Password : {"", "pw"},
                  Role : {"reader", "writer", "admin", ""}]
    IN UNION {[1..n -> users] : n \in 0..MaxUsers}

Loading(file, env) ==
    [stage |-> "file", file |-> file, env |-> env, c |-> file, err |-> "",
     maxEntrySize |-> Int64(0), probe |-> NoAuthHeader,
     admit |-> [read |-> FALSE, write |-> FALSE]]

\* what the steps of main and of requests in flight leave alone
Rest ==
    UNCHANGED << authEnabled, metricsEnabled, lastPut, replaced, views, call, shared,
                 srv, req, resp >>

\* main starts with a configuration file and an environment
InitConfig ==
    /\ \E enabled \in BOOLEAN, users \in UserLists,
          ru \in {"", "eve"}, rp \in {"", "epw"}, wu \in {"", "eve"}, wp \in {"", "epw"} :
          cfg = Loading(Config(enabled, users, Int64(100)), Env(ru, rp, wu, wp))
    /\ authEnabled = FALSE
    /\ metricsEnabled = TRUE
    /\ store = [k \in Keys |-> Absent]
    /\ lastPut = [k \in Keys |-> Absent]
    /\ replaced = {}
    /\ views = NoViews
    /\ call = NoCall
    /\ shared = Constructed
    /\ srv = Started
    /\ req = NoneServed
    /\ resp = NoResponse
    /\ run = NotStarted
    /\ conc = NoClients

\* config.Load
DoLoad ==
    /\ cfg.stage = "file"
    /\ cfg' = [cfg EXCEPT !.stage = "loaded", !.c = Load(cfg.file, cfg.env)]
    /\ UNCHANGED << store, run, conc >>
    /\ Rest

\* cfg.Validate in main: an error ends the process
DoValidate ==
    /\ cfg.stage = "loaded"
    /\ \E err \in {Validate(cfg.c)} :
          cfg' = [cfg EXCEPT !.stage = IF err = "" THEN "valid" ELSE "fatal",
                             !.err = err]
    /\ UNCHANGED << store, run, conc >>
    /\ Rest

\* server.New: the handler gets the maximum entry size, the routes the gate
DoNew ==
    /\ cfg.stage = "valid"
    /\ cfg' = [cfg EXCEPT !.stage = "built", !.maxEntrySize = MaxEntrySizeBytes(cfg.c)]
    /\ UNCHANGED << store, run, conc >>
    /\ Rest

\* a request meets the gate
DoAdmit(hdr) ==
    /\ cfg.stage = "built"
    /\ cfg' = [cfg EXCEPT !.stage = "probed", !.probe = hdr,
                          !.admit = Admit(cfg.c, hdr)]
    /\ UNCHANGED << store, run, conc >>
    /\ Rest

NextConfig ==
    \/ DoLoad
    \/ DoValidate
    \/ DoNew
    \/ \E u \in {"", "alice"}, p \in {"", "pw"} : DoAdmit(BasicHeader(u, p))

SpecConfig == InitConfig /\ [][NextConfig]_vars

\* the same start with the users of the default file and an entry size of
\* m * 1024^n or -m * 1024^n megabytes
InitSize ==
    /\ \E m \in 0..MaxMantissa, n \in 0..MaxExp, sign \in {1, Base - 1} :
          LET x == IF sign = 1 THEN Int64(m) ELSE Mul([i \in 1..4 |-> Base - 1], m)
              up == IF n = 0 THEN x
                    ELSE IF n = 1 THEN Mul(x, 1024)
                    ELSE IF n = 2 THEN Mul(Mul(x, 1024), 1024)
                    ELSE IF n = 3 THEN Mul(Mul(Mul(x, 1024), 1024), 1024)
                    ELSE Mul(Mul(Mul(Mul(x, 1024), 1024), 1024), 1024)
          IN cfg = Loading(Config(TRUE, Users, up), Env("", "", "", ""))
    /\ authEnabled = FALSE
    /\ metricsEnabled = TRUE
    /\ store = [k \in Keys |-> Absent]
    /\ lastPut = [k \in Keys |-> Absent]
    /\ replaced = {}
    /\ views = NoViews
    /\ call = NoCall
    /\ shared = Constructed
    /\ srv = Started
    /\ req = NoneServed
    /\ resp = NoResponse
    /\ run = NotStarted
    /\ conc = NoClients

SpecSize == InitSize /\ [][NextConfig]_vars

(***************************************************************************)
(* main from SetupTelemetry to the end of the process, with Server.Run,    *)
(* its serving goroutine and the channel between them.                     *)
(***************************************************************************)
MaxInflight == 2

\* SetupTelemetry(sentryEnabled, sentryDSN): the cleanup function and the
\* error it returns, given whether prometheus.New and sentry.Init fail
SetupTelemetry(sentryEnabled, promFails, sentryFails) ==
    IF promFails THEN [cleanup |-> "nil", err |-> "prometheus"]
    ELSE IF ~sentryEnabled THEN [cleanup |-> "nil", err |-> ""]
    ELSE IF sentryFails THEN [cleanup |-> "nil", err |-> "sentry"]
    ELSE [cleanup |-> "func", err |-> ""]

\* a send on a channel without buffer and with no receiver waiting
ErrChSend_Unbuffered(ch, err) == [ok |-> FALSE, ch |-> ch]

\* errCh <- err on errCh := make(chan error, 1): the send completes while
\* the buffer has room
ErrChSend(ch, err) ==
    IF Len(ch) < 1 THEN [ok |-> TRUE, ch |-> Append(ch, err)]
    ELSE [ok |-> FALSE, ch |-> ch]

\* main before the call of SetupTelemetry
Booting(sentry) ==
    [pc |-> "setup", sentry |-> sentry, cleanup |-> "unset", terr |-> "",
     rpc |-> "none", gpc |-> "none", errCh |-> << >>, cancelled |-> FALSE,
     failed |-> FALSE, elapsed |-> 0, inflight |-> 0, seen |-> 0, result |-> "",
     exit |-> ""]

InitMain ==
    /\ \E sentry \in BOOLEAN : run = Booting(sentry)
    /\ authEnabled = FALSE
    /\ metricsEnabled = TRUE
    /\ store = [k \in Keys |-> Absent]
    /\ lastPut = [k \in Keys |-> Absent]
    /\ replaced = {}
    /\ views = NoViews
    /\ call = NoCall
    /\ shared = Constructed
    /\ srv = Started
    /\ req = NoneServed
    /\ resp = NoResponse
    /\ cfg = NotStarted
    /\ conc = NoClients

\* main calls SetupTelemetry, ends the process on an error and defers the
\* cleanup otherwise
Telemetry(promFails, sentryFails) ==
    /\ run.pc = "setup"
    /\ \E out \in {SetupTelemetry(run.sentry, promFails, sentryFails)} :
          run' = [run EXCEPT !.cleanup = out.cleanup, !.terr = out.err,
                             !.pc = IF out.err # "" THEN "exited" ELSE "ready",
                             !.exit = IF out.err # "" THEN "fatal" ELSE ""]
    /\ UNCHANGED << store, cfg, conc >>
    /\ Rest

\* main calls srv.Run(ctx): Run makes errCh, starts the goroutine and waits
\* in its select
EnterRun ==
    /\ run.pc = "ready"
    /\ run' = [run EXCEPT !.pc = "run", !.rpc = "select", !.gpc = "starting"]
    /\ UNCHANGED << store, cfg, conc >>
    /\ Rest

\* the goroutine calls ListenAndServe: after Shutdown it returns
\* ErrServerClosed, otherwise it listens or fails to
Listen(fails) ==
    /\ run.pc = "run"
    /\ run.gpc = "starting"
    /\ run' = IF run.rpc # "select" THEN [run EXCEPT !.gpc = "exited"]
              ELSE IF fails THEN [run EXCEPT !.gpc = "sending", !.failed = TRUE]
              ELSE [run EXCEPT !.gpc = "serving"]
    /\ UNCHANGED << store, cfg, conc >>
    /\ Rest

\* Serve returns an error of Accept
ServeBreaks ==
    /\ run.pc = "run"
    /\ run.gpc = "serving"
    /\ run.rpc = "select"
    /\ run' = [run EXCEPT !.gpc = "sending", !.failed = TRUE]
    /\ UNCHANGED << store, cfg, conc >>
    /\ Rest

\* Serve returns ErrServerClosed once Shutdown has closed the listener
ServeClosed ==
    /\ run.pc = "run"
    /\ run.gpc = "serving"
    /\ run.rpc # "select"
    /\ run' = [run EXCEPT !.gpc = "exited"]
    /\ UNCHANGED << store, cfg, conc >>
    /\ Rest

\* errCh <- err
Send ==
    /\ run.pc = "run"
    /\ run.gpc = "sending"
    /\ \E out \in {ErrChSend(run.errCh, "listen")} :
          /\ out.ok
          /\ run' = [run EXCEPT !.errCh = out.ch, !.gpc = "exited"]
    /\ UNCHANGED << store, cfg, conc >>
    /\ Rest

\* a request arrives, a request ends
Arrive ==
    /\ run.pc = "run"
    /\ run.gpc = "serving"
    /\ run.rpc = "select"
    /\ run.inflight < MaxInflight
    /\ run' = [run EXCEPT !.inflight = @ + 1]
    /\ UNCHANGED << store, cfg, conc >>
    /\ Rest

Finish ==
    /\ run.pc = "run"
    /\ run.inflight > 0
    /\ run' = [run EXCEPT !.inflight = @ - 1]
    /\ UNCHANGED << store, cfg, conc >>
    /\ Rest

\* SIGINT or SIGTERM: main's goroutine cancels ctx
Interrupt ==
    /\ run.pc = "run"
    /\ ~run.cancelled
    /\ run' = [run EXCEPT !.cancelled = TRUE]
    /\ UNCHANGED << store, cfg, conc >>
    /\ Rest

\* case <-ctx.Done(): Shutdown starts with its first poll
SelectDone ==
    /\ run.pc = "run"
    /\ run.rpc = "select"
    /\ run.cancelled
    /\ run' = [run EXCEPT !.rpc = "shutdown", !.elapsed = 0, !.seen = run.inflight]
    /\ UNCHANGED << store, cfg, conc >>
    /\ Rest

\* case err := <-errCh: return err
SelectErr ==
    /\ run.pc = "run"
    /\ run.rpc = "select"
    /\ run.errCh # << >>
    /\ run' = [run EXCEPT !.rpc = "returned", !.result = Head(run.errCh),
                          !.errCh = Tail(run.errCh)]
    /\ UNCHANGED << store, cfg, conc >>
    /\ Rest

\* a second of Shutdown, ending with a poll of the connections
Second ==
    /\ run.pc = "run"
    /\ run.rpc = "shutdown"
    /\ run.elapsed < GracePeriod
    /\ run' = [run EXCEPT !.elapsed = @ + 1, !.seen = run.inflight]
    /\ UNCHANGED << store, cfg, conc >>
    /\ Rest

\* a poll finds every connection idle: Shutdown and Run return nil
Drained ==
    /\ run.pc = "run"
    /\ run.rpc = "shutdown"
    /\ run.inflight = 0
    /\ run' = [run EXCEPT !.rpc = "returned", !.result = "nil"]
    /\ UNCHANGED << store, cfg, conc >>
    /\ Rest

\* shutdownCtx is done after a poll that found a connection active:
\* Shutdown returns its error and Run wraps it
Expired ==
    /\ run.pc = "run"
    /\ run.rpc = "shutdown"
    /\ run.elapsed = GracePeriod
    /\ run.seen > 0
    /\ run' = [run EXCEPT !.rpc = "returned", !.result = "shutdown"]
    /\ UNCHANGED << store, cfg, conc >>
    /\ Rest

\* main after Run: logger.Fatal on an error (no deferred call runs), else
\* "server stopped" and the deferred calls, cleanup() last
AfterRun ==
    /\ run.pc = "run"
    /\ run.rpc = "returned"
    /\ run' = [run EXCEPT !.pc = "exited",
                          !.exit = IF run.result # "nil" THEN "fatal"
                                   ELSE IF run.cleanup = "nil" THEN "panic"
                                   ELSE "clean"]
    /\ UNCHANGED << store, cfg, conc >>
    /\ Rest

NextMain ==
    \/ \E promFails \in BOOLEAN, sentryFails \in BOOLEAN :
          Telemetry(promFails, sentryFails)
    \/ EnterRun
    \/ \E fails \in BOOLEAN : Listen(fails)
    \/ ServeBreaks
    \/ ServeClosed
    \/ Send
    \/ Arrive
    \/ Finish
    \/ Interrupt
    \/ SelectDone
    \/ SelectErr
    \/ Second
    \/ Drained
    \/ Expired
    \/ AfterRun

SpecMain == InitMain /\ [][NextMain]_vars

\* the scheduler runs a goroutine that can take a step, and a timer fires:
\* the steps of Run, of Shutdown and of the serving goroutine are taken when
\* they stay enabled; signals, requests and failures are not owed
SpecMainFair ==
    /\ SpecMain
    /\ WF_vars(\E fails \in BOOLEAN : Listen(fails))
    /\ WF_vars(ServeClosed)
    /\ WF_vars(Send)
    /\ WF_vars(SelectDone)
    /\ WF_vars(SelectErr)
    /\ WF_vars(Second)
    /\ WF_vars(Drained)
    /\ WF_vars(Expired)

(***************************************************************************)
(* Requests in flight at once. A request touches the store in one Redis    *)
(* command (GET or SET); what the handler does before and after it is      *)
(* local to the request. Clients are numbered in the order they arrive.    *)
(***************************************************************************)
MaxClients == 3

\* two keys that differ in case only; PUTs of a one-byte body and of one at
\* the ceiling, and to one key a PUT over the ceiling and one the backend
\* fails on
ConcKeys == {<< "a" >>, << "A" >>}
ConcRequests ==
    {Request("PUT", k, NoAuthHeader, b, TRUE, FALSE, FALSE) :
        k \in ConcKeys, b \in {Fill(1, 1), Fill(MaxEntrySize, 2)}}
    \cup {Request("PUT", << "A" >>, NoAuthHeader, Fill(MaxEntrySize + 1, 1), TRUE, FALSE,
                   FALSE),
           Request("PUT", << "A" >>, NoAuthHeader, Fill(1, 2), TRUE, FALSE, TRUE)}
    \cup {Request("GET", k, NoAuthHeader, << >>, FALSE, FALSE, FALSE) : k \in ConcKeys}

InitConc ==
    /\ conc = NoClients
    /\ store = [k \in ConcKeys |-> Absent]
    /\ authEnabled = FALSE
    /\ metricsEnabled = TRUE
    /\ lastPut = [k \in Keys |-> Absent]
    /\ replaced = {}
    /\ views = NoViews
    /\ call = NoCall
    /\ shared = Constructed
    /\ srv = Started
    /\ req = NoneServed
    /\ resp = NoResponse
    /\ cfg = NotStarted
    /\ run = NotStarted

\* the server accepts a request and starts its handler chain
ConcArrive(r) ==
    /\ Len(conc.procs) < MaxClients
    /\ conc' = [conc EXCEPT !.procs =
                   Append(@, [pc |-> "handling", r |-> r, out |-> NoResponse,
                              got |-> Absent])]
    /\ store' = store
    /\ UNCHANGED << cfg, run >>
    /\ Rest

\* the handler of request c runs up to and including its Redis command, on
\* the store as it is at that moment
ConcCommand(c) ==
    /\ c \in DOMAIN conc.procs
    /\ conc.procs[c].pc = "handling"
    /\ \E out \in {Router(authEnabled, metricsEnabled, store, conc.procs[c].r)} :
          /\ store' = out.store
          /\ conc' = [conc EXCEPT
                 !.procs[c].pc = "responding",
                 !.procs[c].out = out.resp,
                 !.procs[c].got =
                     IF conc.procs[c].r.method = "GET"
                       THEN store[redisKey(<< >>, conc.procs[c].r.key)]
                       ELSE Absent,
                 !.stored = IF out.put.called /\ out.resp.status = 201
                              THEN Append(@, c) ELSE @]
    /\ UNCHANGED << cfg, run >>
    /\ Rest

\* the response of request c reaches its client
ConcRespond(c) ==
    /\ c \in DOMAIN conc.procs
    /\ conc.procs[c].pc = "responding"
    /\ conc' = [conc EXCEPT !.procs[c].pc = "done"]
    /\ store' = store
    /\ UNCHANGED << cfg, run >>
    /\ Rest

NextConc ==
    \/ \E r \in ConcRequests : ConcArrive(r)
    \/ \E c \in 1..MaxClients : ConcCommand(c)
    \/ \E c \in 1..MaxClients : ConcRespond(c)

SpecConc == InitConc /\ [][NextConc]_vars

(***************************************************************************)
(* Properties.                                                             *)
(***************************************************************************)
\* the request served last, per kind
Served(method) == req.r.method = method /\ req.reached
\* the storage answered the last request's call (no backend failure)
Healthy == ~req.r.fault

\* C1: if PUT k with body a returned 201 and no later PUT to k succeeded,
\* every later GET k (admitted, backend answering) returns 200 with a body
\* equal to a byte for byte.
C1_PutThenGetReturnsBody ==
    (Served("GET") /\ Healthy /\ lastPut[req.r.key].present)
        => (resp.status = 200 /\ resp.body = lastPut[req.r.key].data)

\* C2: on every GET answered 200 the Content-Length header sent is the
\* decimal representation of the size Storage.Get reported, never another
\* value and never absent.
C2_ContentLengthIsDecimalSize ==
    (Served("GET") /\ resp.status = 200)
        => resp.contentLength = FormatInt(Len(store[req.r.key].data))

Oversized(q) ==
    /\ q.r.method = "PUT" /\ q.reached
    /\ \/ q.r.declared /\ Len(q.r.body) > MaxEntrySize
       \/ ~q.r.declared
          /\ Len(RequestBody(q.r.body, q.r.declared, q.r.aborts).data) > MaxEntrySize

\* C4: a PUT of an artifact larger than max, declared or discovered while
\* reading, is answered 413, calls no Storage.Put and leaves the store as it
\* was; a GET that follows it on a never-written key is answered 404.
C4_OversizedPutRejected ==
    [][ /\ Oversized(req') =>
            /\ resp'.status = 413
            /\ store' = store
            /\ \A i \in 1..Len(req'.calls) : req'.calls[i] # "Put"
        /\ ( /\ Oversized(req) /\ ~lastPut[req.r.key].present
             /\ req'.r.method = "GET" /\ req'.reached /\ ~req'.r.fault
             /\ req'.r.key = req.r.key )
            => resp'.status = 404 ]_vars

C4_Witness ==
    /\ Oversized(req) /\ ~req.r.declared
    /\ resp.status = 413
    /\ ~store[req.r.key].present

\* C5: the ceiling is exact in both PUT branches: a body of exactly max
\* bytes is accepted (201) and stored whole, a body of max+1 bytes is
\* rejected (413), and a body answered 201 is stored untruncated.
C5_CeilingIsExact ==
    (Served("PUT") /\ Healthy /\ ~req.r.aborts) =>
        /\ Len(req.r.body) = MaxEntrySize =>
              (resp.status = 201 /\ store[req.r.key] = Entry(req.r.body))
        /\ Len(req.r.body) = MaxEntrySize + 1 => resp.status = 413
        /\ resp.status = 201 => store[req.r.key] = Entry(req.r.body)

C5_Witness ==
    /\ Served("PUT") /\ ~req.r.declared
    /\ Len(req.r.body) = MaxEntrySize
    /\ resp.status = 201
    /\ store[req.r.key] = Entry(req.r.body)

\* C6: after two successful sequential PUTs to one key with contents a1
\* then a2, every later GET (admitted, backend answering) returns exactly
\* a2.
C6_SecondPutReplacesFirst ==
    (Served("GET") /\ Healthy /\ req.r.key \in replaced)
        => (resp.status = 200 /\ resp.body = lastPut[req.r.key].data)

\* the credential of a request is valid for role
ValidFor(hdr, role) ==
    /\ hdr.kind = "basic"
    /\ hdr.username \in DOMAIN Credentials(Users)
    /\ Credentials(Users)[hdr.username].Password = hdr.password
    /\ Credentials(Users)[hdr.username].Role = role

Rejected == resp.status = 401 \/ resp.status = 403

\* C7: with auth enabled, a valid reader credential is admitted to GET and
\* HEAD and gets 403 on PUT; a valid writer credential is admitted to GET,
\* HEAD and PUT.
C7_ReaderReadsWriterWrites ==
    (authEnabled /\ req.route = "cache") =>
        /\ ValidFor(req.r.hdr, "reader") =>
              IF req.r.method = "PUT"
                THEN resp = Status(403) /\ ~req.reached
                ELSE req.reached /\ ~Rejected
        /\ ValidFor(req.r.hdr, "writer") => (req.reached /\ ~Rejected)

C7_Witness ==
    /\ authEnabled
    /\ ValidFor(req.r.hdr, "reader")
    /\ req.r.method = "PUT"
    /\ resp.status = 403

UnknownUser(q) ==
    /\ q.route = "cache"
    /\ q.r.hdr.kind = "basic"
    /\ q.r.hdr.username \notin DOMAIN Credentials(Users)

WrongSecret(q) ==
    /\ q.route = "cache"
    /\ q.r.hdr.kind = "basic"
    /\ q.r.hdr.username \in DOMAIN Credentials(Users)
    /\ Credentials(Users)[q.r.hdr.username].Password # q.r.hdr.password

\* C8: with auth enabled, a request with an unknown username and a request
\* with a known username and a wrong secret get identical responses: status
\* 401, the same WWW-Authenticate header, the same empty body.
C8_UnknownUserLikeWrongSecret ==
    [][ ( /\ authEnabled
          /\ \/ UnknownUser(req) /\ WrongSecret(req')
             \/ WrongSecret(req) /\ UnknownUser(req') )
        => ( /\ resp' = resp
             /\ resp'.status = 401
             /\ resp'.wwwAuth = BasicChallenge
             /\ resp'.body = << >> ) ]_vars

C8_Witness ==
    /\ authEnabled
    /\ UnknownUser(req)
    /\ req.r.method = "GET"
    /\ resp.status = 401
    /\ lastPut[req.r.key].present

\* C9: with auth enabled, a missing or malformed Basic Authorization header
\* is answered 401; every 401 carries a WWW-Authenticate challenge of the
\* Basic scheme and no response of another status carries a challenge.
C9_ChallengeExactlyOn401 ==
    /\ (authEnabled /\ req.route = "cache" /\ req.r.hdr.kind # "basic")
          => resp.status = 401
    /\ resp.status = 401 => resp.wwwAuth.scheme = "Basic"
    /\ resp.status # 401 => resp.wwwAuth = NoChallenge

C9_Witness ==
    /\ authEnabled
    /\ req.r.method = "PUT"
    /\ req.r.hdr.kind = "malformed"
    /\ resp.status = 401
    /\ resp.wwwAuth.scheme = "Basic"

\* C10: with auth disabled, no cache request is answered 401 or 403: GET,
\* HEAD and PUT reach the handler with or without credentials.
C10_AuthDisabledAdmitsAll ==
    (~authEnabled /\ req.route = "cache") => (req.reached /\ ~Rejected)

C10_Witness ==
    /\ ~authEnabled
    /\ req.r.method = "PUT"
    /\ req.r.hdr.kind = "none"
    /\ req.reached
    /\ resp.status = 201

\* the last request was GET on the given path
ServedAt(path) == req.r.method = "GET" /\ req.r.path = path

\* C11: GET /ping returns 200 with the body "pong" in every state and calls
\* no Storage operation; GET /health returns 503 when Storage.Ping returns
\* an error and 200 when it does not; neither is ever answered 401 or 403,
\* auth enabled or not, credentials sent or not.
C11_PingAndHealth ==
    /\ ServedAt("/ping") =>
          (resp.status = 200 /\ resp.body = Pong /\ req.calls = << >>)
    /\ ServedAt("/health") =>
          /\ req.calls = << "Ping" >>
          /\ resp.status = IF RedisPing(req.r.fault) # "" THEN 503 ELSE 200
    /\ (ServedAt("/ping") \/ ServedAt("/health")) => ~Rejected

C11_Witness ==
    /\ authEnabled
    /\ ServedAt("/health")
    /\ req.r.hdr = NoAuthHeader
    /\ req.r.fault
    /\ resp.status = 503
    /\ \E k \in Keys : store[k].present

\* C12: once a PUT to k has returned 201 the entry stays: whatever requests
\* follow, k is present in the store with no expiry, every later GET k and
\* HEAD k that is admitted and meets no storage error returns 200, and no
\* request calls Storage.Delete.
C12_EntryIsNeverRemoved ==
    /\ \A k \in Keys : lastPut[k].present => store[k].present
    /\ \A k \in Keys : store[k].expiry = 0
    /\ ((Served("GET") \/ Served("HEAD")) /\ Healthy /\ lastPut[req.r.key].present)
          => resp.status = 200
    /\ \A i \in 1..Len(req.calls) : req.calls[i] # "Delete"

C12_Witness ==
    /\ Served("PUT")
    /\ resp.status = 500
    /\ lastPut[req.r.key].present
    /\ store[req.r.key].present

\* the response is a status line and headers only
Bare == resp.body = << >> /\ resp.json = NoJSON /\ resp.contentType = ""

\* C13: on the cache endpoints a Storage failure other than NotFound is
\* answered with a bare 500, every other error status is bare too, and no
\* response other than that of /health carries a diagnostic body or the
\* backend's error text.
C13_ErrorsAreBareStatuses ==
    /\ (req.reached /\ req.calls # << >> /\ req.r.fault) => resp = Status(500)
    /\ (Served("PUT") /\ req.calls = << "Put" >> /\ resp.status # 201)
          => resp = Status(500)
    /\ (req.route = "cache" /\ resp.status >= 400)
          => (Bare /\ resp.status \in {400, 401, 403, 404, 413, 500})
    /\ resp.json # NoJSON => req.route = "handleHealth"

C13_Witness ==
    /\ Served("HEAD")
    /\ req.r.fault
    /\ resp = Status(500)
    /\ store[req.r.key].present

\* C17: an unknown username takes the gate through the same steps as a
\* known username with a wrong secret: the secret comparison is reached
\* for both.
C17_NoEarlyExitBeforeComparison ==
    (authEnabled /\ (UnknownUser(req) \/ WrongSecret(req)))
        => \E i \in 1..Len(req.steps) : req.steps[i] = "ConstantTimeCompare"

\* C18: every entry in the store is no larger than the configured maximum
\* entry size, whether a declared-length or an unknown-length PUT stored it.
C18_StoredSizeWithinMax ==
    \A k \in Keys : Len(store[k].data) <= MaxEntrySize

C18_Witness ==
    /\ Served("PUT") /\ req.r.declared
    /\ resp.status = 201
    /\ Len(store[req.r.key].data) = MaxEntrySize
    /\ \E k \in Keys \ {req.r.key} : Len(store[k].data) = MaxEntrySize

\* C19: a PUT answered 201 leaves the complete new content under its key,
\* and a Get of the key returns all of it; a PUT that reached the handler
\* and was not answered 201 leaves the whole store as it was.
C19_PutIsAllOrNothing ==
    [][ (req'.reached /\ req'.r.method = "PUT")
        => IF resp'.status = 201
             THEN /\ store' = [store EXCEPT ![req'.r.key] = Entry(req'.r.body)]
                  /\ RedisGet(store', req'.r.key, FALSE).data = req'.r.body
             ELSE store' = store ]_vars

C19_Witness ==
    /\ Served("PUT")
    /\ req.r.aborts
    /\ resp.status = 500
    /\ req.calls = << "Put" >>
    /\ store[req.r.key] = lastPut[req.r.key]
    /\ Len(store[req.r.key].data) > Len(req.r.body) - 1

\* the last request is one of the cache methods on the cache path
OnCachePath == req.r.path = "/cache/" /\ req.r.method \in {"GET", "HEAD", "PUT"}
\* the last request passes the gate: auth is off or it carries the writer's
\* credentials
Admissible == ~authEnabled \/ req.r.hdr = Writer

\* C14: a GET, HEAD or PUT on the cache path with an empty key reaches the
\* handler's empty-key check, is answered 400 and calls no Storage operation.
C14_EmptyKeyIs400 ==
    (OnCachePath /\ req.r.key = << >> /\ Admissible)
        => (req.reached /\ resp.status = 400 /\ req.calls = << >>)

\* C15: a request to /cache/{key} with a method other than GET, HEAD or PUT
\* is answered 405 by the router, reaches no cache handler and causes no
\* Storage operation.
C15_OtherMethodIs405 ==
    (req.r.path = "/cache/" /\ req.r.key = << "k", "1" >>
        /\ req.r.method \in {"DELETE", "POST"})
        => (resp.status = 405 /\ ~req.reached /\ req.calls = << >>)

\* the last request was answered without credentials on a server that has
\* auth enabled
AnsweredUnauthenticated ==
    /\ authEnabled
    /\ req.r.method # ""
    /\ req.r.hdr = NoAuthHeader
    /\ resp # NoRoute
    /\ resp.status # 401

C20_NamespacesAreDisjoint ==
    (views.resolved /\ views.a.namespace # views.b.namespace)
        => (views.redis[1] # views.redis[2] /\ views.minio[1] # views.minio[2])

\* C21: RedisStorage.Get returns ErrNotFound exactly when the key holds no
\* artifact and the command did not fail, and Exists returns (false, nil)
\* exactly then; so GET and HEAD answer 404 only for an absent key, and a
\* backend failure is answered 500, never 404.
C21_NotFoundOnlyWhenAbsent ==
    /\ \A k \in Keys, f \in BOOLEAN :
          /\ (RedisGet(store, k, f).err = "ErrNotFound") <=> (~f /\ ~store[k].present)
          /\ f => RedisGet(store, k, f).err \notin {"", "ErrNotFound"}
          /\ (RedisExists(store, k, f) = [err |-> "", exists |-> FALSE])
                <=> (~f /\ ~store[k].present)
    /\ ((Served("GET") \/ Served("HEAD")) /\ resp.status = 404)
          => (~req.r.fault /\ ~store[req.r.key].present)
    /\ ((Served("GET") \/ Served("HEAD")) /\ req.r.fault) => resp.status = 500

C21_Witness ==
    /\ Served("GET")
    /\ req.r.fault
    /\ ~store[req.r.key].present
    /\ resp.status = 500

\* the credentials of the last request are those of a configured user
Validated ==
    /\ req.r.hdr.kind = "basic"
    /\ req.r.hdr.username \in DOMAIN Credentials(Users)
    /\ Credentials(Users)[req.r.hdr.username].Password = req.r.hdr.password

\* C25: with auth enabled, a PUT whose credentials are missing, malformed,
\* of an unknown user or wrong is answered 401, never 403; 403 goes only to
\* a PUT whose credentials were validated and whose role is not writer.
C25_AuthenticationBeforeAuthorization ==
    /\ (authEnabled /\ req.route = "cache" /\ req.r.method = "PUT" /\ ~Validated)
          => resp.status = 401
    /\ resp.status = 403 =>
          /\ authEnabled /\ req.route = "cache" /\ req.r.method = "PUT"
          /\ Validated
          /\ Credentials(Users)[req.r.hdr.username].Role # "writer"
          /\ req.steps = << "BasicAuth", "lookup", "ConstantTimeCompare", "Set" >>

C25_Witness ==
    /\ authEnabled
    /\ req.r.method = "PUT"
    /\ WrongSecret(req)
    /\ resp.status = 401
    /\ Len(req.r.body) = MaxEntrySize + 1

\* C26: a PUT whose declared Content-Length exceeds the maximum is answered
\* 413 with no byte of the body read and no Storage call; whenever a PUT
\* has read body bytes or called the store, its declared length, if any,
\* was within the maximum.
C26_DeclaredCheckComesFirst ==
    /\ (Served("PUT") /\ req.r.declared /\ Len(req.r.body) > MaxEntrySize)
          => (resp.status = 413 /\ req.read = 0 /\ req.calls = << >>)
    /\ (Served("PUT") /\ (req.read > 0 \/ req.calls # << >>))
          => ContentLength(req.r.body, req.r.declared) <= MaxEntrySize

C26_Witness ==
    /\ Served("PUT") /\ req.r.declared
    /\ Len(req.r.body) = MaxEntrySize + 1
    /\ resp.status = 413
    /\ req.read = 0
    /\ store[req.r.key].present

\* offsets and buffer lengths around the ends of the last request's body
Edges == {0, 1, Len(req.r.body) - 1, Len(req.r.body), Len(req.r.body) + 1} \cap Nat

\* C27: an unknown-length PUT of n <= max bytes hands Storage.Put a stream
\* of exactly those n bytes and size n; a declared-length PUT hands it the
\* declared Content-Length as size; bytesReaderAt.ReadAt on the buffered
\* body returns, for an offset and a buffer length, the body's bytes from
\* that offset, as many as fit.
C27_PutIsHandedTheBody ==
    (Served("PUT") /\ req.put.called) =>
        /\ req.put.size = ContentLength(req.r.body, TRUE)
        /\ ~req.r.declared =>
              /\ req.put.data = req.r.body
              /\ \A off \in Edges, plen \in Edges :
                    LET end == IF off + plen < Len(req.r.body)
                                 THEN off + plen ELSE Len(req.r.body)
                    IN ReadAt(req.r.body, plen, off).p = SubSeq(req.r.body, off + 1, end)

C27_Witness ==
    /\ Served("PUT") /\ ~req.r.declared
    /\ req.put.called
    /\ req.put.data = req.r.body
    /\ Len(req.r.body) = MaxEntrySize
    /\ resp.status = 201

\* the Storage operation a cache method invokes
OperationOf(method) ==
    CASE method = "GET" -> "Get" [] method = "HEAD" -> "Exists" [] method = "PUT" -> "Put"

\* C28: a cache request invokes at most one Storage operation, the one of
\* its method, and a failed Storage call is answered 500 after that one call.
C28_NothingIsRetried ==
    /\ req.route = "cache" =>
          \/ req.calls = << >>
          \/ req.reached /\ req.calls = << OperationOf(req.r.method) >>
    /\ (req.reached /\ req.r.fault /\ req.calls # << >>)
          => (Len(req.calls) = 1 /\ resp.status = 500)

C28_Witness ==
    /\ Served("GET")
    /\ req.r.fault
    /\ req.calls = << "Get" >>
    /\ resp.status = 500
    /\ store[req.r.key].present

\* C29: GET and HEAD on the cache and GET /ping and /health leave every
\* stored key and artifact as it was, whatever they answer.
C29_ReadsAreSafe ==
    [][ req'.r.method \in {"GET", "HEAD"} => store' = store ]_vars

C29_Witness ==
    /\ ServedAt("/health")
    /\ ~req.r.fault
    /\ resp.status = 200
    /\ \A k \in Keys : store[k].present

\* C22: Delete of an absent key returns no error and changes nothing; a
\* Delete whose command succeeds leaves the key absent and every other key
\* as it was; a second Delete of the key has the same result and final
\* state as the first; after a successful Delete a Get of the key fails
\* with ErrNotFound and Exists answers false.
C22_DeleteIsIdempotent ==
    [][ /\ (call'.op = "Delete" /\ ~call'.fault) =>
              /\ call'.err = ""
              /\ store' = [store EXCEPT ![call'.key] = Absent]
              /\ ~store[call'.key].present => store' = store
        /\ (call.op = "Delete" /\ call.err = "" /\ call'.key = call.key
                /\ ~call'.fault) =>
              /\ call'.op = "Delete" => (call'.err = call.err /\ store' = store)
              /\ call'.op = "Get" => call'.err = "ErrNotFound"
              /\ call'.op = "Exists" => (call'.err = "" /\ ~call'.exists) ]_vars

C22_Witness ==
    /\ call.op = "Delete"
    /\ ~call.before[call.key].present
    /\ call.err = ""
    /\ store = call.before
    /\ \E k \in Keys : store[k].present

\* C23: once the shutdown has begun no new connection is accepted; during
\* it a request is cut only when the grace period is over, and never a
\* request that needed less than the grace period when the shutdown began;
\* when the process has stopped or exited no request is left in flight, and
\* a shutdown that returns in time has cut none.
C23_GracefulShutdown ==
    [][ /\ srv.phase # "running" =>
              \A c \in Conns :
                  ~(srv.conns[c].state = "none" /\ srv'.conns[c].state = "active")
        /\ srv.phase = "shutdown" =>
              \A c \in Conns :
                  (srv.conns[c].state = "active" /\ srv'.conns[c].state = "cut")
                      => /\ srv.elapsed = GracePeriod
                         /\ srv.conns[c].atSignal >= GracePeriod
        /\ srv'.phase \in {"stopped", "exited"} => Active(srv') = {}
        /\ srv'.phase = "stopped" =>
              \A c \in Conns : srv'.conns[c].state # "cut" ]_vars

C23_Witness ==
    /\ srv.phase = "exited"
    /\ srv.cause = "grace"
    /\ \E c \in Conns : srv.conns[c].state = "cut"
    /\ \E c \in Conns :
          srv.conns[c].state = "done" /\ srv.conns[c].atSignal = GracePeriod - 1

C30_SharedStateIsImmutable ==
    [][ /\ shared'.credentials = shared.credentials
        /\ shared'.maxEntrySize = shared.maxEntrySize
        /\ \A i \in DOMAIN shared.handles :
              i \in DOMAIN shared'.handles /\ shared'.handles[i] = shared.handles[i]
        /\ shared'.handles # shared.handles =>
              /\ Len(shared'.handles) = Len(shared.handles) + 1
              /\ shared'.handles[Len(shared'.handles)].client = "redis"
              /\ shared'.handles[Len(shared'.handles)].namespace # << >> ]_vars

C30_Witness ==
    /\ Len(shared.handles) = 2
    /\ shared.handles[1] = Storage("redis", << >>)
    /\ shared.handles[2].namespace = << "a" >>
    /\ Served("PUT")
    /\ resp.status = 201


\* C33: a cache request the gate answers 401 or 403 does not reach the cache
\* handler: none of its body is read, no Storage operation is invoked and the
\* store stays as it was; with auth enabled a PUT without the writer's
\* credentials is answered 401 or 403 whatever the size of its body.
C33_RejectedNeverReachesHandler ==
    [][ /\ (req'.route = "cache" /\ resp'.status \in {401, 403}) =>
              /\ ~req'.reached
              /\ req'.read = 0
              /\ req'.calls = << >>
              /\ ~req'.put.called
              /\ store' = store
        /\ (authEnabled /\ req'.route = "cache" /\ req'.r.method = "PUT"
              /\ ~ValidFor(req'.r.hdr, "writer")) =>
              resp'.status \in {401, 403} ]_vars

\* a reader's PUT of a body over the maximum was answered 403 on a store
\* that holds an entry
C33_Witness ==
    /\ authEnabled
    /\ req.r.method = "PUT"
    /\ req.r.hdr = Reader
    /\ Len(req.r.body) > MaxEntrySize
    /\ resp.status = 403
    /\ ~req.reached
    /\ \E k \in Keys : store[k].present


\* the configuration passed Validate and auth is enabled
ValidatedWithAuth ==
    cfg.stage \in {"valid", "built", "probed"} /\ cfg.c.Auth.Enabled

\* C31: every user of a validated configuration the gate is built from has
\* the role reader or writer, and no username appears twice with different
\* roles or secrets.
C31_EveryCredentialHasOneRole ==
    ValidatedWithAuth =>
        LET users == cfg.c.Auth.Users IN
        /\ \A i \in 1..Len(users) : users[i].Role \in {"reader", "writer"}
        /\ \A i, j \in 1..Len(users) :
              users[i].Username = users[j].Username =>
                  /\ users[i].Role = users[j].Role
                  /\ users[i].Password = users[j].Password

\* the sign of x and whether it is zero
IsNegative(x) == x[Len(x)] >= Base \div 2
IsZero(x) == \A i \in 1..Len(x) : x[i] = 0

\* x at twice its width, sign-extended
SignExtend(x) ==
    x \o [i \in 1..Len(x) |-> IF IsNegative(x) THEN Base - 1 ELSE 0]

\* C32: the maximum entry size the handler of a validated configuration
\* gets is positive and equals MaxEntrySizeMB * 1,048,576 (the product taken
\* without wrapping).
C32_MaxEntrySizeIsPositiveAndExact ==
    cfg.stage \in {"built", "probed"} =>
        /\ ~IsNegative(cfg.maxEntrySize)
        /\ ~IsZero(cfg.maxEntrySize)
        /\ SignExtend(cfg.maxEntrySize)
             = Mul(Mul(SignExtend(cfg.c.Cache.MaxEntrySizeMB), 1024), 1024)

\* C38: a configuration with auth enabled that passed Validate lists at least
\* one user, every user has a non-empty username and a non-empty password,
\* and no request with an empty username or an empty password passes the
\* gate built from it.
C38_ValidatedCredentialsAreNonEmpty ==
    ValidatedWithAuth =>
        /\ Len(cfg.c.Auth.Users) > 0
        /\ DOMAIN Credentials(cfg.c.Auth.Users) # {}
        /\ \A i \in 1..Len(cfg.c.Auth.Users) :
              /\ cfg.c.Auth.Users[i].Username # ""
              /\ cfg.c.Auth.Users[i].Password # ""
        /\ (cfg.stage = "probed" /\ cfg.admit.read) =>
              /\ cfg.probe.username # ""
              /\ cfg.probe.password # ""

\* a loaded configuration whose credentials come from the environment was
\* validated with auth enabled, a request passed its gate and another was
\* refused
C38_Witness ==
    /\ ValidatedWithAuth
    /\ cfg.stage = "probed"
    /\ cfg.c # cfg.file
    /\ cfg.admit.read
    /\ cfg.probe = BasicHeader("alice", "pw")
    /\ Len(cfg.c.Auth.Users) = MaxUsers

\* C39: after Load no user's role differs from the file's, a user whose
\* username or password differs from the file's has the role of the
\* variable that set it: reader for CACHE_READER_*, writer for
\* CACHE_WRITER_*.
C39_OverridesFollowTheRole ==
    cfg.stage \in {"loaded", "valid", "fatal", "built", "probed"} =>
        /\ Len(cfg.c.Auth.Users) = Len(cfg.file.Auth.Users)
        /\ \A i \in 1..Len(cfg.c.Auth.Users) :
              LET was == cfg.file.Auth.Users[i]
                  is == cfg.c.Auth.Users[i]
              IN /\ is.Role = was.Role
                 /\ is.Username # was.Username =>
                       \/ is.Role = "reader"
                          /\ is.Username = cfg.env.CACHE_READER_USERNAME
                       \/ is.Role = "writer"
                          /\ is.Username = cfg.env.CACHE_WRITER_USERNAME
                 /\ is.Password # was.Password =>
                       \/ is.Role = "reader"
                          /\ is.Password = cfg.env.CACHE_READER_PASSWORD
                       \/ is.Role = "writer"
                          /\ is.Password = cfg.env.CACHE_WRITER_PASSWORD


\* C36: when SetupTelemetry returned no error, the cleanup main has deferred
\* is a function and the process does not end in a panic.
C36_CleanupIsCallable ==
    (run.pc \in {"ready", "run", "exited"} /\ run.terr = "") =>
        /\ run.cleanup = "func"
        /\ run.exit # "panic"

\* the goroutine is at errCh <- err and the send cannot complete
Blocked == run.gpc = "sending" /\ ~ErrChSend(run.errCh, "listen").ok

\* what Run has returned fits what happened
ReturnsRight ==
    /\ run.elapsed <= GracePeriod
    /\ run.rpc = "returned" =>
          /\ ~Blocked
          /\ run.result \in {"listen", "nil", "shutdown"}
          /\ run.result = "listen" => run.failed
          /\ run.result = "nil" => run.cancelled /\ run.inflight = 0
          /\ run.result = "shutdown" =>
                run.cancelled /\ run.elapsed = GracePeriod /\ run.seen > 0
          /\ (run.failed /\ ~run.cancelled) => run.result = "listen"

\* C37: Run returns once the listener has failed or ctx is cancelled; it
\* returns the listener's error, or after a cancellation within the grace
\* period nil with no request in flight or the shutdown error at the
\* deadline; and when it has returned the goroutine is not blocked on errCh.
C37_RunAlwaysReturns ==
    /\ []ReturnsRight
    /\ (run.cancelled \/ run.failed) ~> (run.rpc = "returned")

\* Run returned nil after a cancellation although the listener had failed:
\* the error stayed in the buffer of errCh and the goroutine has exited
C37_Witness ==
    /\ run.rpc = "returned"
    /\ run.result = "nil"
    /\ run.failed
    /\ run.cancelled
    /\ run.gpc = "exited"
    /\ run.errCh = << "listen" >>


\* the GETs answered 200 so far
GotOK ==
    {g \in DOMAIN conc.procs :
        /\ conc.procs[g].r.method = "GET"
        /\ conc.procs[g].pc \in {"responding", "done"}
        /\ conc.procs[g].out.status = 200}

\* what Storage.Get handed a GET answered 200 is the whole body of one PUT
\* to its key whose store call had completed
OneWholePut ==
    \A g \in GotOK :
        \E i \in DOMAIN conc.stored :
            /\ conc.procs[conc.stored[i]].r.key = conc.procs[g].r.key
            /\ conc.procs[g].got.data = conc.procs[conc.stored[i]].r.body

\* the response of a GET answered 200 carries that content and its length
OwnLength ==
    \A g \in GotOK :
        /\ conc.procs[g].out.body = conc.procs[g].got.data
        /\ conc.procs[g].out.contentLength = FormatInt(Len(conc.procs[g].got.data))

\* with every request finished, a key holds the body of the PUT to it whose
\* store call completed last
LastStoreWins ==
    (\A c \in DOMAIN conc.procs : conc.procs[c].pc = "done") =>
        \A k \in DOMAIN store :
            LET at == {i \in DOMAIN conc.stored : conc.procs[conc.stored[i]].r.key = k}
            IN IF at = {} THEN ~store[k].present
               ELSE LET last == CHOOSE i \in at : \A j \in at : j <= i
                    IN store[k] = Entry(conc.procs[conc.stored[last]].r.body)

\* C34: under every interleaving of PUTs and GETs, a GET answered 200
\* returns the whole content of one PUT to its key whose store call had
\* completed, with that content's length, and when all requests have finished
\* a key holds the content of the PUT whose store call completed last.
C34_ConcurrentGetSeesOnePut ==
    /\ OneWholePut
    /\ OwnLength
    /\ LastStoreWins

\* C35: a step changes the entry of a key only if it is the store call of a
\* PUT to exactly that key; the entries of all other keys, those differing in
\* case only included, stay as they were, whatever the other requests in
\* flight.
C35_PutChangesOnlyItsKey ==
    [][ \A k \in DOMAIN store :
            store'[k] # store[k] =>
                \E c \in DOMAIN conc.procs :
                    /\ conc.procs[c].pc = "handling"
                    /\ conc'.procs[c].pc = "responding"
                    /\ conc.procs[c].r.method = "PUT"
                    /\ conc.procs[c].r.key = k ]_vars

\* two PUTs in flight at once, to keys that differ in case only, stored
\* in the order opposite to their arrival, each under its own key
C35_Witness ==
    /\ conc.stored = << 2, 1 >>
    /\ conc.procs[1].r.key = << "a" >>
    /\ conc.procs[2].r.key = << "A" >>
    /\ conc.procs[1].r.body # conc.procs[2].r.body
    /\ store[<< "a" >>] = Entry(conc.procs[1].r.body)
    /\ store[<< "A" >>] = Entry(conc.procs[2].r.body)

====
